---- MODULE Spec2Model ----
(***************************************************************************)
(* State-machine model of the gameplay core of threejs-rts-game: the ECS   *)
(* registry (World / Entity), the components and the gameplay systems      *)
(* (selection, movement, resource gathering, building placement,           *)
(* production).                                                            *)
(*                                                                         *)
(* Conventions of the model                                                *)
(*  - Positions lie on the x axis and are integers (z = 0).  The y offsets *)
(*    the factories use (0, 0.5, 1, 1.2, 1.6) differ by less than 1, so    *)
(*    with integer x they never change the outcome of the strict           *)
(*    comparisons of a 3D distance against the integer radii 2, 3, 5, 20.  *)
(*  - Time is counted in fifths of a second (TimeScale steps per second),  *)
(*    so that speed * deltaTime, the gather interval 1.0 and the           *)
(*    production increment deltaTime * rate * 20 are all integers.         *)
(*  - A THREE.Vector3 | null field is <<>> (null) or <<x>>.                *)
(*  - A handler is an operator from a state record to a state record; an   *)
(*    action applies one handler to the current state.                     *)
(*  - The components of the repository come in several wirings whose       *)
(*    method names differ (setSelected / select, getTarget /               *)
(*    targetPosition, getEntitiesWithComponents / queryEntities); a call   *)
(*    is resolved to the method of the component under src/ that does      *)
(*    that job.  A dereference of a field that src/ declares nullable      *)
(*    and that is null raises a TypeError: the handler stops there and     *)
(*    the field `fault` is set.                                            *)
(***************************************************************************)
EXTENDS Integers, Sequences, FiniteSets, TLC

VARIABLES pool, nextId, entities, transform, movement, gathering, resource,
          building, prodq, selectable, toDestroy, selected, placementMode,
          buildingType, ghost, fault, ret, lastOp, disabled, systems, handed

vars == <<pool, nextId, entities, transform, movement, gathering, resource,
          building, prodq, selectable, toDestroy, selected, placementMode,
          buildingType, ghost, fault, ret, lastOp, disabled, systems, handed>>

(***************************************************************************)
(* Bounds of the model                                                     *)
(***************************************************************************)
\* largest initial amount of a resource node
MaxAmount == 12
\* largest gather amount passed to ResourceComponent.gather
MaxRate == 4
\* number of entity ids the registry may issue in one run
MaxEntities == 7
\* number of entity ids issued in the runs of the registry and the scheduler
MaxWorldIds == 2
\* number of systems registered at a time
MaxSystems == 3

(***************************************************************************)
(* Program constants                                                       *)
(***************************************************************************)
\* steps of model time per second
TimeScale == 5
\* GATHER every second: gatherTimer >= 1.0
GatherInterval == 5
\* distanceToBase < 3
DepositRadius == 3
\* distance < 2
GatherRange == 2
\* distance < 20
SearchRadius == 20
\* const minDistance = 5
MinDistance == 5
\* new MovementComponent(5.0)
UnitSpeed == 5
\* deltaTime * queue.productionRate * 20
ProductionScale == 20
\* currentUnit.progress >= 100
ProgressDone == 100
\* new THREE.Vector3(3, 0, 0)
SpawnOffset == 3
\* ProductionQueueComponent(productionRate = 1, maxQueueSize = 5)
DefaultProductionRate == 1
DefaultMaxQueueSize == 5
\* new GatheringComponent(10, 10)
DefaultGatherRate == 10
DefaultCarryCapacity == 10

NoId == -1
NoVec == <<>>
NoType == "null"

Vec(x) == <<x>>
Abs(n) == IF n < 0 THEN -n ELSE n
Min(a, b) == IF a <= b THEN a ELSE b
\* Vector3.distanceTo, on the x axis
distanceTo(a, b) == Abs(a - b)

(***************************************************************************)
(* Component maps: partial functions from entity ids                       *)
(***************************************************************************)
NoComponents == <<>>
Put(f, e, v) == [x \in (DOMAIN f) \cup {e} |-> IF x = e THEN v ELSE f[x]]
Drop(f, e) == [x \in (DOMAIN f) \ {e} |-> f[x]]

\* ascending order of ids = insertion order of World.entities (a Map)
RECURSIVE SortedSeq(_)
SortedSeq(S) ==
  IF S = {} THEN <<>>
  ELSE LET m == CHOOSE x \in S : \A y \in S : x <= y
       IN <<m>> \o SortedSeq(S \ {m})

(***************************************************************************)
(* The state as a record, and its application to the variables             *)
(***************************************************************************)
\* F(v), with the value v computed once before F uses it: one statement of
\* the code after another
Then(v, F(_)) == CHOOSE r \in {F(x) : x \in {v}} : TRUE

Cur ==
  [pool |-> pool, nextId |-> nextId, entities |-> entities,
   transform |-> transform, movement |-> movement, gathering |-> gathering,
   resource |-> resource, building |-> building, prodq |-> prodq,
   selectable |-> selectable, toDestroy |-> toDestroy, selected |-> selected,
   placementMode |-> placementMode, buildingType |-> buildingType,
   ghost |-> ghost, fault |-> fault, ret |-> ret, disabled |-> disabled,
   systems |-> systems, handed |-> handed]

Apply(s, op) ==
  /\ pool' = s.pool
  /\ nextId' = s.nextId
  /\ entities' = s.entities
  /\ transform' = s.transform
  /\ movement' = s.movement
  /\ gathering' = s.gathering
  /\ resource' = s.resource
  /\ building' = s.building
  /\ prodq' = s.prodq
  /\ selectable' = s.selectable
  /\ toDestroy' = s.toDestroy
  /\ selected' = s.selected
  /\ placementMode' = s.placementMode
  /\ buildingType' = s.buildingType
  /\ ghost' = s.ghost
  /\ fault' = s.fault
  /\ ret' = s.ret
  /\ disabled' = s.disabled
  /\ systems' = s.systems
  /\ handed' = s.handed
  /\ lastOp' = op

\* the state after `new World()` and the construction of the systems
EmptyWorld(gold, wood) ==
  [pool |-> [gold |-> gold, wood |-> wood], nextId |-> 0, entities |-> {},
   transform |-> NoComponents, movement |-> NoComponents,
   gathering |-> NoComponents, resource |-> NoComponents,
   building |-> NoComponents, prodq |-> NoComponents,
   selectable |-> NoComponents, toDestroy |-> {}, selected |-> NoId,
   placementMode |-> FALSE, buildingType |-> NoType, ghost |-> NoVec,
   fault |-> FALSE, ret |-> "void", disabled |-> {}, systems |-> <<>>,
   handed |-> <<>>]

InitFrom(s) ==
  /\ pool = s.pool
  /\ nextId = s.nextId
  /\ entities = s.entities
  /\ transform = s.transform
  /\ movement = s.movement
  /\ gathering = s.gathering
  /\ resource = s.resource
  /\ building = s.building
  /\ prodq = s.prodq
  /\ selectable = s.selectable
  /\ toDestroy = s.toDestroy
  /\ selected = s.selected
  /\ placementMode = s.placementMode
  /\ buildingType = s.buildingType
  /\ ghost = s.ghost
  /\ fault = s.fault
  /\ ret = s.ret
  /\ disabled = s.disabled
  /\ systems = s.systems
  /\ handed = s.handed
  /\ lastOp = [op |-> "init", arg |-> NoId, out |-> 0]

(***************************************************************************)
(* World / Entity                                                          *)
(***************************************************************************)
\* World.createEntity: Entity.nextId++ and registration; the new id is
\* s.nextId of the state before the call
createEntity(s) ==
  [s EXCEPT !.nextId = s.nextId + 1, !.entities = s.entities \cup {s.nextId}]

\* World.getEnabledEntities, as a set: Entity.enabled of the registry's entities
getEnabledEntities(s) == s.entities \ s.disabled

\* World.getEntity
getEntity(s, id) == IF id \in s.entities THEN id ELSE NoId

(***************************************************************************)
(* ResourceComponent                                                       *)
(***************************************************************************)
\* constructor(type, amount)
ResourceComponent(type, amount) ==
  [type |-> type, amount |-> amount, maxAmount |-> amount, depleted |-> FALSE]

\* gather that flags the node depleted only when the amount is below 0
gather_DepletedBelowZero(r, gatherAmount) ==
  IF r.depleted THEN [res |-> r, actual |-> 0]
  ELSE LET actualAmount == Min(gatherAmount, r.amount)
           left == r.amount - actualAmount
       IN [res |-> [r EXCEPT !.amount = left,
                             !.depleted = IF left < 0 THEN TRUE ELSE r.depleted],
           actual |-> actualAmount]

\* gather that returns the amount asked for, whatever the node holds
gather_FullRate(r, gatherAmount) ==
  IF r.depleted THEN [res |-> r, actual |-> 0]
  ELSE LET actualAmount == Min(gatherAmount, r.amount)
           left == r.amount - actualAmount
       IN [res |-> [r EXCEPT !.amount = left,
                             !.depleted = IF left <= 0 THEN TRUE ELSE r.depleted],
           actual |-> gatherAmount]

\* gather(gatherAmount): the component after the call and the returned amount
gather(r, gatherAmount) ==
  IF r.depleted THEN [res |-> r, actual |-> 0]
  ELSE LET actualAmount == Min(gatherAmount, r.amount)
           left == r.amount - actualAmount
       IN [res |-> [r EXCEPT !.amount = left,
                             !.depleted = IF left <= 0 THEN TRUE ELSE r.depleted],
           actual |-> actualAmount]

\* ResourceFactory.createGoldMine / createTree with the given amount
createResource(s, type, amount, x) ==
  LET e == s.nextId
      s1 == createEntity(s)
  IN [s1 EXCEPT !.resource = Put(s1.resource, e, ResourceComponent(type, amount)),
                !.transform = Put(s1.transform, e, x)]

(***************************************************************************)
(* GatheringComponent, MovementComponent, SelectableComponent, UnitFactory *)
(***************************************************************************)
\* constructor(gatherRate = 10, carryCapacity = 10)
GatheringComponent(gatherRate, carryCapacity) ==
  [gatherRate |-> gatherRate, carryCapacity |-> carryCapacity,
   currentCarry |-> 0, resourceType |-> NoType, targetResourceId |-> NoId,
   isGathering |-> FALSE, gatherTimer |-> 0]

\* constructor(speed): no target, not moving
MovementComponent(speed) ==
  [speed |-> speed, targetPosition |-> NoVec, isMoving |-> FALSE]

\* MovementComponent.setTarget
setTarget(m, x) == [m EXCEPT !.targetPosition = Vec(x), !.isMoving = TRUE]

\* MovementComponent.clearTarget
clearTarget(m) == [m EXCEPT !.targetPosition = NoVec, !.isMoving = FALSE]

\* constructor: isSelected = false
SelectableComponent == [isSelected |-> FALSE]

\* UnitFactory.createUnit(x, y, z): Transform, Renderable, Selectable, Movement
createUnit(s, x) ==
  LET e == s.nextId
      s1 == createEntity(s)
  IN [s1 EXCEPT !.transform = Put(s1.transform, e, x),
                !.selectable = Put(s1.selectable, e, SelectableComponent),
                !.movement = Put(s1.movement, e, MovementComponent(UnitSpeed))]

\* entity.addComponent(new GatheringComponent(rate, capacity))
addGathering(s, e, rate, capacity) ==
  [s EXCEPT !.gathering = Put(s.gathering, e, GatheringComponent(rate, capacity))]

(***************************************************************************)
(* MovementSystem.update                                                   *)
(***************************************************************************)
\* distanceSquared < 0.01, as 100 * distanceSquared < 1
ArrivalFactor == 100

\* the loop body without the test moveDistance >= distance: the entity
\* always advances by moveDistance
moveEntityAt_NoSnap(pos, m, dt, unit) ==
  IF m.targetPosition = NoVec THEN [pos |-> pos, mov |-> m]
  ELSE LET target == m.targetPosition[1]
           dx == target - pos
           distance == Abs(dx)
           moveDistance == (m.speed * dt * unit) \div TimeScale
       IN IF ArrivalFactor * distance * distance < unit * unit
          THEN [pos |-> pos, mov |-> clearTarget(m)]
          ELSE [pos |-> IF dx > 0 THEN pos + moveDistance ELSE pos - moveDistance,
                mov |-> m]

\* the loop body that never clears the target
moveEntityAt_KeepTarget(pos, m, dt, unit) ==
  IF m.targetPosition = NoVec THEN [pos |-> pos, mov |-> m]
  ELSE LET target == m.targetPosition[1]
           dx == target - pos
           distance == Abs(dx)
           moveDistance == (m.speed * dt * unit) \div TimeScale
       IN IF moveDistance >= distance
          THEN [pos |-> target, mov |-> m]
          ELSE [pos |-> IF dx > 0 THEN pos + moveDistance ELSE pos - moveDistance,
                mov |-> m]

\* one entity of the loop: the new position and Movement component, the
\* positions in steps of 1/unit
moveEntityAt(pos, m, dt, unit) ==
  IF m.targetPosition = NoVec THEN [pos |-> pos, mov |-> m]
  ELSE LET target == m.targetPosition[1]
           dx == target - pos
           distance == Abs(dx)
           moveDistance == (m.speed * dt * unit) \div TimeScale
       IN IF ArrivalFactor * distance * distance < unit * unit
          THEN [pos |-> pos, mov |-> clearTarget(m)]
          ELSE IF moveDistance >= distance
               THEN [pos |-> target, mov |-> clearTarget(m)]
               ELSE [pos |-> IF dx > 0 THEN pos + moveDistance ELSE pos - moveDistance,
                     mov |-> m]

\* the loop body with the positions in whole units: a distance below 0.1
\* is the distance 0
moveEntity(pos, m, dt) == moveEntityAt(pos, m, dt, 1)

\* MovementSystem.update with the positions in steps of 1/unit
MovementSystem_updateAt(s, dt, unit) ==
  LET movers == (DOMAIN s.movement) \cap (DOMAIN s.transform) \cap getEnabledEntities(s)
      after(e) == moveEntityAt(s.transform[e], s.movement[e], dt, unit)
  IN [s EXCEPT
        !.transform = [e \in DOMAIN s.transform |->
                         IF e \in movers THEN after(e).pos ELSE s.transform[e]],
        !.movement = [e \in DOMAIN s.movement |->
                         IF e \in movers THEN after(e).mov ELSE s.movement[e]]]

MovementSystem_update(s, dt) == MovementSystem_updateAt(s, dt, 1)

(***************************************************************************)
(* ResourceGatheringSystem                                                 *)
(***************************************************************************)
\* let nearestDistance = Infinity
Infinity == 999999

\* JavaScript truthiness of an entity id used as a condition: 0 is falsy
truthy(id) == id /= NoId /\ id /= 0

\* the movement command with its two statements swapped: isMoving = true
\* first, then targetPosition.set(...)
commandMove_FlagFirst(s, e, x) ==
  IF s.movement[e].targetPosition = NoVec
  THEN [s EXCEPT !.fault = TRUE, !.movement[e].isMoving = TRUE]
  ELSE [s EXCEPT !.movement[e].targetPosition = Vec(x),
                 !.movement[e].isMoving = TRUE]

\* movement.targetPosition.set(...) / .copy(...) followed by isMoving = true:
\* raises when targetPosition is null
commandMove(s, e, x) ==
  IF s.movement[e].targetPosition = NoVec
  THEN [s EXCEPT !.fault = TRUE]
  ELSE [s EXCEPT !.movement[e].targetPosition = Vec(x),
                 !.movement[e].isMoving = TRUE]

\* the deposit block without the test of isMoving
depositStep_WhileMoving(s, e) ==
  LET g == s.gathering[e]
  IN IF g.currentCarry >= g.carryCapacity /\ Abs(s.transform[e]) < DepositRadius
     THEN [s EXCEPT
             !.pool = IF g.resourceType = "gold"
                      THEN [s.pool EXCEPT !.gold = @ + g.currentCarry]
                      ELSE IF g.resourceType = "wood"
                           THEN [s.pool EXCEPT !.wood = @ + g.currentCarry]
                           ELSE s.pool,
             !.gathering[e].currentCarry = 0,
             !.gathering[e].resourceType = NoType,
             !.gathering[e].isGathering = FALSE]
     ELSE s

\* the deposit block of update
depositStep(s, e) ==
  LET g == s.gathering[e]
  IN IF g.currentCarry >= g.carryCapacity /\ ~s.movement[e].isMoving
        /\ Abs(s.transform[e]) < DepositRadius
     THEN [s EXCEPT
             !.pool = IF g.resourceType = "gold"
                      THEN [s.pool EXCEPT !.gold = @ + g.currentCarry]
                      ELSE IF g.resourceType = "wood"
                           THEN [s.pool EXCEPT !.wood = @ + g.currentCarry]
                           ELSE s.pool,
             !.gathering[e].currentCarry = 0,
             !.gathering[e].resourceType = NoType,
             !.gathering[e].isGathering = FALSE]
     ELSE s

\* the gather event that gathers twice from the node
gatherEvent_Twice(s, e, r) ==
  LET first == gather(s.resource[r], s.gathering[e].gatherRate)
      got == gather(first.res, s.gathering[e].gatherRate)
      carry == s.gathering[e].currentCarry + first.actual + got.actual
      s1 == [s EXCEPT !.resource[r] = got.res,
                      !.gathering[e].currentCarry = carry,
                      !.gathering[e].resourceType = got.res.type,
                      !.gathering[e].gatherTimer = 0]
  IN IF carry >= s.gathering[e].carryCapacity
     THEN commandMove([s1 EXCEPT !.gathering[e].isGathering = FALSE,
                                 !.gathering[e].targetResourceId = NoId],
                      e, 0)
     ELSE s1

\* the gather event: resource.gather(gatherRate) and the return to base
gatherEvent(s, e, r) ==
  LET got == gather(s.resource[r], s.gathering[e].gatherRate)
      carry == s.gathering[e].currentCarry + got.actual
      s1 == [s EXCEPT !.resource[r] = got.res,
                      !.gathering[e].currentCarry = carry,
                      !.gathering[e].resourceType = got.res.type,
                      !.gathering[e].gatherTimer = 0]
  IN IF carry >= s.gathering[e].carryCapacity
     THEN commandMove([s1 EXCEPT !.gathering[e].isGathering = FALSE,
                                 !.gathering[e].targetResourceId = NoId],
                      e, 0)
     ELSE s1

\* the gather block of update
gatherStep(s, e, dt) ==
  LET g == s.gathering[e]
      r == getEntity(s, g.targetResourceId)
  IN IF truthy(g.targetResourceId) /\ ~s.movement[e].isMoving
        /\ r /= NoId /\ r \in DOMAIN s.resource /\ r \in DOMAIN s.transform
     THEN IF distanceTo(s.transform[e], s.transform[r]) < GatherRange
             /\ ~s.resource[r].depleted
          THEN LET timer == g.gatherTimer + dt
                   s1 == [s EXCEPT !.gathering[e].isGathering = TRUE,
                                   !.gathering[e].gatherTimer = timer]
               IN IF timer >= GatherInterval THEN gatherEvent(s1, e, r) ELSE s1
          ELSE IF s.resource[r].depleted
               THEN [s EXCEPT !.gathering[e].targetResourceId = NoId,
                              !.gathering[e].isGathering = FALSE]
               ELSE s
     ELSE s

\* the scan of findNearestResource: best is the nearest node found so far
RECURSIVE scanResources(_, _, _, _, _)
scanResources(s, pos, todo, best, bestDistance) ==
  IF todo = <<>> THEN best
  ELSE LET r == Head(todo)
           distance == distanceTo(pos, s.transform[r])
       IN IF ~s.resource[r].depleted /\ distance < bestDistance
             /\ distance < SearchRadius
          THEN scanResources(s, pos, Tail(todo), r, distance)
          ELSE scanResources(s, pos, Tail(todo), best, bestDistance)

findNearestResource(s, e) ==
  LET nodes == SortedSeq((DOMAIN s.resource) \cap (DOMAIN s.transform) \cap getEnabledEntities(s))
      nearest == scanResources(s, s.transform[e], nodes, NoId, Infinity)
  IN IF nearest /= NoId
     THEN commandMove([s EXCEPT !.gathering[e].targetResourceId = nearest],
                      e, s.transform[nearest])
     ELSE s

\* the auto-acquire block of update
acquireStep(s, e) ==
  LET g == s.gathering[e]
  IN IF ~g.isGathering /\ ~s.movement[e].isMoving /\ g.currentCarry = 0
     THEN findNearestResource(s, e)
     ELSE s

\* the body of the loop over the gathering entities
gatherEntity(s, e, dt) ==
  Then(depositStep(s, e), LAMBDA s1 :
  Then(gatherStep(s1, e, dt), LAMBDA s2 :
    IF s2.fault THEN s2 ELSE acquireStep(s2, e)))

RECURSIVE gatherLoop(_, _, _)
gatherLoop(s, todo, dt) ==
  IF todo = <<>> \/ s.fault THEN s
  ELSE Then(gatherEntity(s, Head(todo), dt), LAMBDA s1 :
         gatherLoop(s1, Tail(todo), dt))

ResourceGatheringSystem_update(s, dt) ==
  gatherLoop(s, SortedSeq((DOMAIN s.gathering) \cap (DOMAIN s.transform)
                          \cap (DOMAIN s.movement) \cap getEnabledEntities(s)), dt)

(***************************************************************************)
(* ProductionQueueComponent and ProductionSystem                           *)
(***************************************************************************)
\* const unitCost = { gold: 50, wood: 0 }
UnitCostGold == 50
UnitCostWood == 0
UnitCost == [gold |-> UnitCostGold, wood |-> UnitCostWood]

\* constructor(productionRate = 1, maxQueueSize = 5)
ProductionQueueComponent(productionRate, maxQueueSize) ==
  [queue |-> <<>>, productionRate |-> productionRate, maxQueueSize |-> maxQueueSize]

\* addToQueue without the test of maxQueueSize
addToQueue_NoLimit(q, unitType, cost) ==
  [q |-> [q EXCEPT !.queue = Append(q.queue,
             [unitType |-> unitType, progress |-> 0, cost |-> cost])],
   added |-> TRUE]

\* addToQueue(unitType, cost): the component after the call and the result
addToQueue(q, unitType, cost) ==
  IF Len(q.queue) >= q.maxQueueSize
  THEN [q |-> q, added |-> FALSE]
  ELSE [q |-> [q EXCEPT !.queue = Append(q.queue,
                   [unitType |-> unitType, progress |-> 0, cost |-> cost])],
        added |-> TRUE]

\* trainUnit that deducts the cost before it knows whether the job was added
trainUnit_ChargeFirst(s, b) ==
  LET s0 == [s EXCEPT !.fault = FALSE]
      no == [s0 EXCEPT !.ret = "false"]
  IN IF getEntity(s0, b) = NoId THEN no
     ELSE IF b \notin DOMAIN s0.prodq THEN no
     ELSE IF s0.pool.gold < UnitCost.gold \/ s0.pool.wood < UnitCost.wood THEN no
     ELSE LET r == addToQueue(s0.prodq[b], "worker", UnitCost)
              paid == [s0 EXCEPT !.pool = [gold |-> s0.pool.gold - UnitCost.gold,
                                           wood |-> s0.pool.wood - UnitCost.wood]]
          IN IF r.added
             THEN [paid EXCEPT !.prodq[b] = r.q, !.ret = "true"]
             ELSE [paid EXCEPT !.ret = "false"]

\* trainUnit that enqueues the job without deducting its cost
trainUnit_NoCharge(s, b) ==
  LET s0 == [s EXCEPT !.fault = FALSE]
      no == [s0 EXCEPT !.ret = "false"]
  IN IF getEntity(s0, b) = NoId THEN no
     ELSE IF b \notin DOMAIN s0.prodq THEN no
     ELSE IF s0.pool.gold < UnitCost.gold \/ s0.pool.wood < UnitCost.wood THEN no
     ELSE LET r == addToQueue(s0.prodq[b], "worker", UnitCost)
          IN IF r.added
             THEN [s0 EXCEPT !.prodq[b] = r.q, !.ret = "true"]
             ELSE no

\* ProductionSystem.trainUnit(buildingId)
trainUnit(s, b) ==
  LET s0 == [s EXCEPT !.fault = FALSE]
      no == [s0 EXCEPT !.ret = "false"]
  IN IF getEntity(s0, b) = NoId THEN no
     ELSE IF b \notin DOMAIN s0.prodq THEN no
     ELSE IF s0.pool.gold < UnitCost.gold \/ s0.pool.wood < UnitCost.wood THEN no
     ELSE LET r == addToQueue(s0.prodq[b], "worker", UnitCost)
          IN IF r.added
             THEN [s0 EXCEPT !.prodq[b] = r.q,
                             !.pool = [gold |-> s0.pool.gold - UnitCost.gold,
                                       wood |-> s0.pool.wood - UnitCost.wood],
                             !.ret = "true"]
             ELSE no

\* completion that removes the last job of the queue (pop) instead of the head
completeHead_Pop(s, b) ==
  LET e == s.nextId
      s1 == createUnit(s, s.transform[b] + SpawnOffset)
      s2 == addGathering(s1, e, DefaultGatherRate, DefaultCarryCapacity)
      q == s.prodq[b].queue
  IN [s2 EXCEPT !.prodq[b].queue = SubSeq(q, 1, Len(q) - 1)]

\* completion that leaves the new unit without a GatheringComponent
completeHead_NoGathering(s, b) ==
  LET s1 == createUnit(s, s.transform[b] + SpawnOffset)
  IN [s1 EXCEPT !.prodq[b].queue = Tail(s.prodq[b].queue)]

\* the completion of the head job: the unit factory, the GatheringComponent
\* of the new unit and queue.shift()
completeHead(s, b) ==
  LET e == s.nextId
      s1 == createUnit(s, s.transform[b] + SpawnOffset)
      s2 == addGathering(s1, e, DefaultGatherRate, DefaultCarryCapacity)
  IN [s2 EXCEPT !.prodq[b].queue = Tail(s.prodq[b].queue)]

\* the body of the loop over the production buildings
produceBuilding(s, b, dt) ==
  LET q == s.prodq[b]
  IN IF Len(q.queue) > 0
     THEN LET progress == q.queue[1].progress
                          + (dt * q.productionRate * ProductionScale) \div TimeScale
              s1 == [s EXCEPT !.prodq[b].queue[1].progress = progress]
          IN IF progress >= ProgressDone THEN completeHead(s1, b) ELSE s1
     ELSE s

RECURSIVE produceLoop(_, _, _)
produceLoop(s, todo, dt) ==
  IF todo = <<>> THEN s
  ELSE produceLoop(produceBuilding(s, Head(todo), dt), Tail(todo), dt)

ProductionSystem_update(s, dt) ==
  produceLoop(s, SortedSeq((DOMAIN s.prodq) \cap (DOMAIN s.building)
                           \cap (DOMAIN s.transform) \cap getEnabledEntities(s)), dt)

(***************************************************************************)
(* BuildingPlacementSystem                                                 *)
(***************************************************************************)
TownhallGold == 200
TownhallWood == 150
BarracksGold == 100
BarracksWood == 80

getBuildingCost(type) ==
  IF type = "townhall" THEN [gold |-> TownhallGold, wood |-> TownhallWood]
  ELSE IF type = "barracks" THEN [gold |-> BarracksGold, wood |-> BarracksWood]
  ELSE [gold |-> 0, wood |-> 0]

\* enterPlacementMode that compares the gold only
enterPlacementMode_GoldOnly(s, type) ==
  LET s0 == [s EXCEPT !.fault = FALSE, !.ret = "void"]
      costs == getBuildingCost(type)
  IN IF s0.pool.gold < costs.gold THEN s0
     ELSE [s0 EXCEPT !.placementMode = TRUE, !.buildingType = type,
                     !.ghost = Vec(0)]

\* enterPlacementMode(buildingType); the ghost mesh is created at the origin
enterPlacementMode(s, type) ==
  LET s0 == [s EXCEPT !.fault = FALSE, !.ret = "void"]
      costs == getBuildingCost(type)
  IN IF s0.pool.gold < costs.gold \/ s0.pool.wood < costs.wood THEN s0
     ELSE [s0 EXCEPT !.placementMode = TRUE, !.buildingType = type,
                     !.ghost = Vec(0)]

exitPlacementMode(s) ==
  [s EXCEPT !.placementMode = FALSE, !.buildingType = NoType, !.ghost = NoVec]

\* isValidPlacement that accepts every position
isValidPlacement_Anywhere(s, x) == TRUE

isValidPlacement(s, x) ==
  \A b \in (DOMAIN s.building) \cap (DOMAIN s.transform) \cap getEnabledEntities(s) :
     ~(distanceTo(x, s.transform[b]) < MinDistance)

\* createBuilding that gives every building kind a production queue
createBuilding_QueueForAll(s, type, x) ==
  LET e == s.nextId
      s1 == createEntity(s)
  IN [s1 EXCEPT !.building = Put(s1.building, e, [buildingType |-> type]),
                !.transform = Put(s1.transform, e, x),
                !.prodq = Put(s1.prodq, e,
                   ProductionQueueComponent(DefaultProductionRate, DefaultMaxQueueSize))]

createBuilding(s, type, x) ==
  LET e == s.nextId
      s1 == createEntity(s)
      s2 == [s1 EXCEPT !.building = Put(s1.building, e, [buildingType |-> type]),
                       !.transform = Put(s1.transform, e, x)]
  IN IF type = "barracks"
     THEN [s2 EXCEPT !.prodq = Put(s2.prodq, e,
              ProductionQueueComponent(DefaultProductionRate, DefaultMaxQueueSize))]
     ELSE s2

placeBuilding(s) ==
  IF s.ghost = NoVec \/ s.buildingType = NoType THEN s
  ELSE IF ~isValidPlacement(s, s.ghost[1]) THEN s
  ELSE LET costs == getBuildingCost(s.buildingType)
           s1 == [s EXCEPT !.pool = [gold |-> s.pool.gold - costs.gold,
                                     wood |-> s.pool.wood - costs.wood]]
       IN exitPlacementMode(createBuilding(s1, s.buildingType, s.ghost[1]))

\* the canvas click listener
onCanvasClick(s) ==
  LET s0 == [s EXCEPT !.fault = FALSE, !.ret = "void"]
  IN IF s0.placementMode THEN placeBuilding(s0) ELSE s0

\* the Escape key listener
onEscape(s) ==
  LET s0 == [s EXCEPT !.fault = FALSE, !.ret = "void"]
  IN IF s0.placementMode THEN exitPlacementMode(s0) ELSE s0

\* update / updateGhostPosition: p is the ground point under the pointer,
\* NoVec when the ray meets no ground
BuildingPlacementSystem_update(s, p) ==
  IF s.placementMode /\ s.ghost /= NoVec /\ p /= NoVec
  THEN [s EXCEPT !.ghost = p]
  ELSE s

(***************************************************************************)
(* SelectionSystem                                                         *)
(***************************************************************************)
\* results of the raycast other than a selectable entity's mesh
NoHit == -1
UnmappedHit == -2

\* handleSelection that leaves the previous selection selected
deselectCurrent_Skip(s) == s

\* "Deselect current selection"
deselectCurrent(s) ==
  IF s.selected /= NoId /\ getEntity(s, s.selected) /= NoId
     /\ s.selected \in DOMAIN s.selectable
  THEN [s EXCEPT !.selectable[s.selected].isSelected = FALSE]
  ELSE s

\* the selection step that forgets nothing on a click on empty space
selectClicked_KeepOnEmpty(s, hit) ==
  IF hit /= NoHit
  THEN IF hit /= UnmappedHit /\ getEntity(s, hit) /= NoId
          /\ hit \in DOMAIN s.selectable
       THEN [s EXCEPT !.selectable[hit].isSelected = TRUE, !.selected = hit]
       ELSE s
  ELSE s

\* "Select new entity if clicked"
selectClicked(s, hit) ==
  IF hit /= NoHit
  THEN IF hit /= UnmappedHit /\ getEntity(s, hit) /= NoId
          /\ hit \in DOMAIN s.selectable
       THEN [s EXCEPT !.selectable[hit].isSelected = TRUE, !.selected = hit]
       ELSE s
  ELSE [s EXCEPT !.selected = NoId]

handleSelection(s, hit) ==
  selectClicked(deselectCurrent([s EXCEPT !.fault = FALSE, !.ret = "void"]), hit)

\* SelectionSystem.getSelectedEntity
getSelectedEntity(s) == s.selected

\* handleMoveCommand that sends every unit to the ground point
handleMoveCommand_Everyone(s, p) ==
  LET s0 == [s EXCEPT !.fault = FALSE, !.ret = "void"]
  IN IF s0.selected = NoId \/ p = NoVec THEN s0
     ELSE [s0 EXCEPT !.movement =
             [e \in DOMAIN s0.movement |-> setTarget(s0.movement[e], p[1])]]

\* MovementSystem.handleMoveCommand: p is the ground point, NoVec if none
handleMoveCommand(s, p) ==
  LET s0 == [s EXCEPT !.fault = FALSE, !.ret = "void"]
  IN IF s0.selected = NoId \/ p = NoVec THEN s0
     ELSE IF getEntity(s0, s0.selected) /= NoId
             /\ s0.selected \in DOMAIN s0.movement
          THEN [s0 EXCEPT !.movement[s0.selected] = setTarget(@, p[1])]
          ELSE s0

(***************************************************************************)
(* World: destruction queue and update                                     *)
(***************************************************************************)
\* removeEntity: Entity.destroy() clears the components, then the registry
\* forgets the entity
removeEntity(s, id) ==
  IF id \in s.entities
  THEN [s EXCEPT !.entities = s.entities \ {id},
                 !.disabled = s.disabled \ {id},
                 !.transform = Drop(s.transform, id),
                 !.movement = Drop(s.movement, id),
                 !.gathering = Drop(s.gathering, id),
                 !.resource = Drop(s.resource, id),
                 !.building = Drop(s.building, id),
                 !.prodq = Drop(s.prodq, id),
                 !.selectable = Drop(s.selectable, id)]
  ELSE s

\* destroyEntity that removes the entity at once
destroyEntity_Immediate(s, id) == removeEntity(s, id)

\* destroyEntity that takes an id already queued out of the queue
destroyEntity_Toggle(s, id) ==
  IF id \in s.toDestroy
  THEN [s EXCEPT !.toDestroy = s.toDestroy \ {id}]
  ELSE [s EXCEPT !.toDestroy = s.toDestroy \cup {id}]

\* World.destroyEntity(entityId): entitiesToDestroy.add(entityId)
destroyEntity(s, id) == [s EXCEPT !.toDestroy = s.toDestroy \cup {id}]

RECURSIVE removeAll(_, _)
removeAll(s, todo) ==
  IF todo = <<>> THEN s ELSE removeAll(removeEntity(s, Head(todo)), Tail(todo))

processDestructions(s) ==
  [removeAll(s, SortedSeq(s.toDestroy)) EXCEPT !.toDestroy = {}]

\* World.update(deltaTime): the systems in registration order (all of
\* priority 0), then the destruction queue; an exception leaves the frame
World_update(s, dt, p) ==
  Then([s EXCEPT !.fault = FALSE, !.ret = "void"], LAMBDA s0 :
  Then(MovementSystem_update(s0, dt), LAMBDA s1 :
  Then(ResourceGatheringSystem_update(s1, dt), LAMBDA s2 :
    IF s2.fault THEN s2
    ELSE Then(BuildingPlacementSystem_update(s2, p), LAMBDA s3 :
         Then(ProductionSystem_update(s3, dt), LAMBDA s4 :
           processDestructions(s4))))))

(***************************************************************************)
(* Entity: components and the enabled flag; World.queryEntities, clear     *)
(***************************************************************************)
\* the component kinds the registry and the scheduler are exercised with
ComponentKinds == {"transform", "movement", "selectable"}

\* the components of one kind, by entity
ComponentsOf(s, type) ==
  CASE type = "transform" -> s.transform
    [] type = "movement" -> s.movement
    [] type = "selectable" -> s.selectable
    [] type = "gathering" -> s.gathering
    [] type = "resource" -> s.resource
    [] type = "building" -> s.building
    [] type = "prodq" -> s.prodq

\* Entity.getComponentTypes, as a set
getComponentTypes(s, e) ==
  {type \in ComponentKinds \cup {"gathering", "resource", "building", "prodq"} :
     e \in DOMAIN ComponentsOf(s, type)}

\* Entity.hasComponents(...types): types.every(type => components.has(type))
hasComponents(s, e, types) == \A type \in types : e \in DOMAIN ComponentsOf(s, type)

\* Entity.enabled of an entity object: destroy() leaves a removed one disabled
enabled(s, e) == e \in s.entities /\ e \notin s.disabled

\* queryEntities that does not test entity.enabled
queryEntities_IncludeDisabled(s, types) ==
  LET match(e) == hasComponents(s, e, types)
  IN SelectSeq(SortedSeq(s.entities), match)

\* World.queryEntities(...componentTypes), in the order of the registry
queryEntities(s, types) ==
  LET match(e) == enabled(s, e) /\ hasComponents(s, e, types)
  IN SelectSeq(SortedSeq(s.entities), match)

\* addComponent that keeps the component of a kind already attached
components_set_KeepFirst(s, e, component) ==
  IF e \in DOMAIN ComponentsOf(s, component.type) THEN s
  ELSE CASE component.type = "transform" ->
              [s EXCEPT !.transform = Put(s.transform, e, component.value)]
         [] component.type = "movement" ->
              [s EXCEPT !.movement = Put(s.movement, e, component.value)]
         [] component.type = "selectable" ->
              [s EXCEPT !.selectable = Put(s.selectable, e, component.value)]

\* Entity.addComponent(component): this.components.set(component.type,
\* component), for a component given as its kind and its value
components_set(s, e, component) ==
  CASE component.type = "transform" ->
         [s EXCEPT !.transform = Put(s.transform, e, component.value)]
    [] component.type = "movement" ->
         [s EXCEPT !.movement = Put(s.movement, e, component.value)]
    [] component.type = "selectable" ->
         [s EXCEPT !.selectable = Put(s.selectable, e, component.value)]

\* Entity.addComponent(component) with a newly constructed component
addComponent(s, e, type) ==
  CASE type = "transform" -> components_set(s, e, [type |-> type, value |-> 0])
    [] type = "movement" ->
         components_set(s, e, [type |-> type, value |-> MovementComponent(UnitSpeed)])
    [] type = "selectable" ->
         components_set(s, e, [type |-> type, value |-> SelectableComponent])

\* Entity.disable / Entity.enable of an entity of the registry
disable(s, e) == [s EXCEPT !.disabled = s.disabled \cup {e}]
enable(s, e) == [s EXCEPT !.disabled = s.disabled \ {e}]

\* World.clear that also resets the id counter
clear_ResetIds(s) ==
  [s EXCEPT !.entities = {}, !.disabled = {}, !.toDestroy = {},
            !.transform = NoComponents, !.movement = NoComponents,
            !.gathering = NoComponents, !.resource = NoComponents,
            !.building = NoComponents, !.prodq = NoComponents,
            !.selectable = NoComponents, !.systems = <<>>, !.nextId = 0]

\* World.clear: every entity destroyed, the registry, the destruction queue
\* and the systems emptied; Entity.nextId is untouched
clear(s) ==
  [s EXCEPT !.entities = {}, !.disabled = {}, !.toDestroy = {},
            !.transform = NoComponents, !.movement = NoComponents,
            !.gathering = NoComponents, !.resource = NoComponents,
            !.building = NoComponents, !.prodq = NoComponents,
            !.selectable = NoComponents, !.systems = <<>>]

(***************************************************************************)
(* SystemManager: register, unregister, update; World.update over the      *)
(* registered systems.  A system is a record of the fields of the System   *)
(* interface (priority is <<>> when undefined), the behaviour of its       *)
(* update (role) and its place in the order of registration among the      *)
(* registered systems (rank).                                              *)
(***************************************************************************)
\* (a.priority || 0)
priorityOf(sys) == IF sys.priority = <<>> THEN 0 ELSE sys.priority[1]

\* Array.prototype.sort with the comparator of register: stable, ascending
RECURSIVE sortByPriority(_)
sortByPriority(list) ==
  IF list = <<>> THEN <<>>
  ELSE LET sorted == sortByPriority(SubSeq(list, 1, Len(list) - 1))
           x == list[Len(list)]
           before(y) == priorityOf(y) <= priorityOf(x)
           after(y) == priorityOf(y) > priorityOf(x)
       IN SelectSeq(sorted, before) \o <<x>> \o SelectSeq(sorted, after)

\* register without the sort
register_NoSort(s, sys) ==
  [s EXCEPT !.systems = Append(s.systems, [sys EXCEPT !.rank = Len(s.systems) + 1])]

\* SystemManager.register(system): push, then sort by priority
register(s, sys) ==
  [s EXCEPT !.systems =
     sortByPriority(Append(s.systems, [sys EXCEPT !.rank = Len(s.systems) + 1]))]

\* systems.indexOf(system): 0 when the system is not registered
indexOf(list, sys) ==
  IF \E i \in DOMAIN list : list[i].name = sys.name
  THEN CHOOSE i \in DOMAIN list :
         /\ list[i].name = sys.name
         /\ \A j \in 1 .. (i - 1) : list[j].name /= sys.name
  ELSE 0

\* SystemManager.unregister(system): splice(index, 1)
unregister(s, sys) ==
  LET index == indexOf(s.systems, sys)
  IN IF index /= 0
     THEN LET gone == s.systems[index].rank
              kept == SubSeq(s.systems, 1, index - 1)
                      \o SubSeq(s.systems, index + 1, Len(s.systems))
          IN [s EXCEPT !.ret = "true",
                       !.systems = [i \in DOMAIN kept |->
                          IF kept[i].rank > gone
                          THEN [kept[i] EXCEPT !.rank = @ - 1] ELSE kept[i]]]
     ELSE [s EXCEPT !.ret = "false"]

\* what a system can observe of the world when it is invoked
WorldView(s) ==
  [registry |-> s.entities,
   enabled |-> getEnabledEntities(s),
   types |-> [e \in s.entities |-> getComponentTypes(s, e)],
   queued |-> s.toDestroy]

RECURSIVE destroyAll(_, _)
destroyAll(s, todo) ==
  IF todo = <<>> THEN s
  ELSE destroyAll(destroyEntity(s, Head(todo)), Tail(todo))

\* system.update(deltaTime, matchingEntities): a system that only reads, one
\* that creates a unit (as production does), one that calls destroyEntity on
\* every entity handed to it
systemUpdate(s, sys, matchingEntities) ==
  CASE sys.role = "observe" -> s
    [] sys.role = "spawn" -> createUnit(s, 0)
    [] sys.role = "reap" -> destroyAll(s, matchingEntities)

\* SystemManager.update(deltaTime, entities); each invocation is recorded
RECURSIVE SystemManager_update(_, _, _)
SystemManager_update(s, todo, entitiesAtStart) ==
  IF todo = <<>> THEN s
  ELSE LET system == Head(todo)
           match(e) == enabled(s, e) /\ hasComponents(s, e, system.requiredComponents)
           matchingEntities == SelectSeq(entitiesAtStart, match)
           s1 == systemUpdate(s, system, matchingEntities)
           call == [system |-> system, matching |-> matchingEntities,
                    before |-> WorldView(s), after |-> WorldView(s1)]
       IN IF ~system.enabled
          THEN SystemManager_update(s, Tail(todo), entitiesAtStart)
          ELSE SystemManager_update([s1 EXCEPT !.handed = Append(s1.handed, call)],
                                    Tail(todo), entitiesAtStart)

\* World.update(deltaTime) over the registered systems
update(s, dt) ==
  LET s0 == [s EXCEPT !.fault = FALSE, !.ret = "void", !.handed = <<>>]
      entitiesAtStart == SortedSeq(getEnabledEntities(s0))
  IN processDestructions(SystemManager_update(s0, s0.systems, entitiesAtStart))

(***************************************************************************)
(* Inputs                                                                  *)
(***************************************************************************)
\* frame times, in steps of 1/TimeScale s: a short frame and a one-second one
DeltaTimes == {2, 5}
\* ground points the pointer can resolve to
GroundPoints == {0, 2, 7}
Pointers == {NoVec} \cup {Vec(x) : x \in GroundPoints}
BuildingTypes == {"townhall", "barracks"}
ResourceTypes == {"gold", "wood"}
\* arguments of ResourceComponent.gather
GatherAmounts == (-1) .. MaxRate

Op(name, arg) == [op |-> name, arg |-> arg, out |-> 0]

\* ids issued so far plus the units the queued jobs will create
Pending(s) ==
  LET RECURSIVE jobs(_)
      jobs(S) == IF S = {} THEN 0
                 ELSE LET b == CHOOSE x \in S : TRUE
                      IN Len(s.prodq[b].queue) + jobs(S \ {b})
  IN s.nextId + jobs(DOMAIN s.prodq)

(***************************************************************************)
(* Actions: one per operation of the core                                  *)
(***************************************************************************)
\* one frame: World.update(deltaTime) with the pointer at p
Update(dt, p) ==
  \E s \in {World_update(Cur, dt, p)} : Apply(s, Op("update", dt))

\* left click resolved by the raycast to hit
Select(hit) == Apply(handleSelection(Cur, hit), Op("select", hit))

\* right click resolved to the ground point p
MoveCommand(p) ==
  Apply(handleMoveCommand(Cur, p), Op("move", IF p = NoVec THEN NoId ELSE p[1]))

\* arg: 0 for a town hall, 1 for a barracks
EnterBuildMode(type) ==
  Apply(enterPlacementMode(Cur, type),
        Op("enterPlacementMode", IF type = "townhall" THEN 0 ELSE 1))

CancelBuildMode == Apply(onEscape(Cur), Op("exitPlacementMode", 0))

ConfirmBuild ==
  LET s == onCanvasClick(Cur)
  IN /\ s.nextId > nextId => Pending(Cur) < MaxEntities
     /\ Apply(s, Op("placeBuilding", 0))

TrainUnit(b) ==
  LET s == trainUnit(Cur, b)
  IN /\ s.ret = "true" => Pending(Cur) < MaxEntities
     /\ Apply(s, Op("trainUnit", b))

DestroyEntity(id) ==
  Apply(destroyEntity([Cur EXCEPT !.fault = FALSE, !.ret = "void"], id),
        Op("destroyEntity", id))

\* a direct call of ResourceComponent.gather(n) on node e
GatherCall(e, n) ==
  LET got == gather(resource[e], n)
  IN /\ got.res.amount <= MaxAmount
     /\ Apply([Cur EXCEPT !.resource[e] = got.res, !.fault = FALSE, !.ret = "void"],
              [op |-> "gather", arg |-> n, out |-> got.actual])

(***************************************************************************)
(* Specification of the resource node alone                                *)
(***************************************************************************)
InitResource ==
  \E type \in ResourceTypes, amount \in 0 .. MaxAmount :
     InitFrom(createResource(EmptyWorld(0, 0), type, amount, 7))

NextResource == \E e \in DOMAIN resource, n \in GatherAmounts : GatherCall(e, n)

SpecResource == InitResource /\ [][NextResource]_vars

(***************************************************************************)
(* Specification of gathering: one worker, a gold node and a wood node,    *)
(* frames and the player's select / move commands.  The worker is created  *)
(* first, as in the entry points; the constructor arguments are inputs.    *)
(***************************************************************************)
\* <<gatherRate, carryCapacity>> of the worker: the defaults, and a rate
\* that does not divide the capacity
WorkerKinds == {<<DefaultGatherRate, DefaultCarryCapacity>>, <<3, 4>>}
NodeAmounts == {0, 5, MaxAmount}

GatherWorld(kind, goldAmount, woodAmount) ==
  LET s1 == addGathering(createUnit(EmptyWorld(0, 0), 2), 0, kind[1], kind[2])
      s2 == createResource(s1, "gold", goldAmount, 3)
  IN createResource(s2, "wood", woodAmount, 1)

InitGather ==
  \E kind \in WorkerKinds, goldAmount \in NodeAmounts :
     InitFrom(GatherWorld(kind, goldAmount, 5))

Hits == {NoHit, UnmappedHit} \cup ((DOMAIN selectable) \cap entities)

UpdateIdle == \E dt \in DeltaTimes : Update(dt, NoVec)
SelectAny == \E hit \in Hits : Select(hit)
MoveAny == \E p \in Pointers : MoveCommand(p)

NextGather == UpdateIdle \/ SelectAny \/ MoveAny

SpecGather == InitGather /\ [][NextGather]_vars

(***************************************************************************)
(* Specification of gathering with two workers: both stand at 2, between   *)
(* the gold node at 3 and the wood node at 1; frames alone                 *)
(***************************************************************************)
TwoWorkerWorld(kind1, kind2, goldAmount) ==
  LET s1 == addGathering(createUnit(EmptyWorld(0, 0), 2), 0, kind1[1], kind1[2])
      s2 == addGathering(createUnit(s1, 2), 1, kind2[1], kind2[2])
      s3 == createResource(s2, "gold", goldAmount, 3)
  IN createResource(s3, "wood", 5, 1)

InitTwoWorkers ==
  \E kind1 \in WorkerKinds, kind2 \in WorkerKinds, goldAmount \in NodeAmounts :
     InitFrom(TwoWorkerWorld(kind1, kind2, goldAmount))

SpecTwoWorkers == InitTwoWorkers /\ [][UpdateIdle]_vars

(***************************************************************************)
(* Specification of gathering away from the base: the worker stands at 5,  *)
(* the gold node at 4 or at 6 and the wood node at 1; the player gives no  *)
(* command and the animation loop keeps calling World.update: frames       *)
(* never stop                                                              *)
(***************************************************************************)
FarGoldPoints == {4, 6}

FarWorld(kind, goldAmount, goldX) ==
  LET s1 == addGathering(createUnit(EmptyWorld(0, 0), 5), 0, kind[1], kind[2])
      s2 == createResource(s1, "gold", goldAmount, goldX)
  IN createResource(s2, "wood", 5, 1)

InitFar ==
  \E kind \in WorkerKinds, goldAmount \in NodeAmounts, goldX \in FarGoldPoints :
     InitFrom(FarWorld(kind, goldAmount, goldX))

SpecFarLive == InitFar /\ [][UpdateIdle]_vars /\ WF_vars(UpdateIdle)

(***************************************************************************)
(* Specification of gathering with the gold node created first: the node   *)
(* has the first identifier the registry issues, the worker the second     *)
(***************************************************************************)
NodeFirstWorld(kind, goldAmount) ==
  LET s1 == createResource(EmptyWorld(0, 0), "gold", goldAmount, 3)
      s2 == addGathering(createUnit(s1, 2), 1, kind[1], kind[2])
  IN createResource(s2, "wood", 5, 1)

InitNodeFirst ==
  \E kind \in WorkerKinds, goldAmount \in NodeAmounts :
     InitFrom(NodeFirstWorld(kind, goldAmount))

SpecNodeFirst == InitNodeFirst /\ [][NextGather]_vars

(***************************************************************************)
(* Specification of gathering with vanishing nodes: the worker and the two *)
(* nodes of the gathering specification, frames, and the destruction of a  *)
(* resource node (queued, flushed at the end of the next frame)            *)
(***************************************************************************)
DestroyNode == \E id \in DOMAIN resource : DestroyEntity(id)

NextVanish == UpdateIdle \/ DestroyNode

SpecVanish == InitGather /\ [][NextVanish]_vars

(***************************************************************************)
(* Specification of selection: three units, selection requests, frames     *)
(* and entity destruction                                                  *)
(***************************************************************************)
SelectWorld == createUnit(createUnit(createUnit(EmptyWorld(0, 0), 0), 2), 7)

InitSelect == InitFrom(SelectWorld)

DestroyAny == \E id \in 0 .. (nextId - 1) : DestroyEntity(id)

NextSelect == SelectAny \/ UpdateIdle \/ DestroyAny

SpecSelect == InitSelect /\ [][NextSelect]_vars

(***************************************************************************)
(* Specification of the commands: two selectable units, selection             *)
(* requests, move commands, frames and the destruction of a unit           *)
(***************************************************************************)
CommandWorld == createUnit(createUnit(EmptyWorld(0, 0), 0), 7)

InitCommand == InitFrom(CommandWorld)

NextCommand == SelectAny \/ MoveAny \/ UpdateIdle \/ DestroyAny

SpecCommand == InitCommand /\ [][NextCommand]_vars

(***************************************************************************)
(* Specification of building and production: the pool is an argument of    *)
(* the systems' constructors; no unit and no resource node exists at the   *)
(* start                                                                   *)
(***************************************************************************)
ProdPools == {[gold |-> 140, wood |-> 80], [gold |-> 400, wood |-> 80]}
\* a one-second frame, a five-second one and a ten-second one
LongDeltaTimes == {5, 25, 50}

InitProd == \E p \in ProdPools : InitFrom(EmptyWorld(p.gold, p.wood))

UpdateAny == \E dt \in LongDeltaTimes, p \in Pointers : Update(dt, p)
EnterAny == \E type \in BuildingTypes : EnterBuildMode(type)
\* the id nextId resolves to no entity
TrainAny == \E b \in 0 .. nextId : TrainUnit(b)

NextProd == UpdateAny \/ EnterAny \/ CancelBuildMode \/ ConfirmBuild \/ TrainAny

SpecProd == InitProd /\ [][NextProd]_vars

(***************************************************************************)
(* Specification of gathering with long frames: the gathering              *)
(* specification with frames of up to ten seconds                          *)
(***************************************************************************)
UpdateLong == \E dt \in DeltaTimes \cup LongDeltaTimes : Update(dt, NoVec)

NextGatherLong == UpdateLong \/ SelectAny \/ MoveAny

SpecGatherLong == InitGather /\ [][NextGatherLong]_vars

(***************************************************************************)
(* Specification of movement near the target: one unit, its positions in   *)
(* twentieths of a unit of length, move commands and frames of 0.2 s and   *)
(* 0.4 s                                                                   *)
(***************************************************************************)
\* steps of position per unit of length
FineUnit == 20
\* move targets: 1.05, 1.5, 2.05 and 2.5 units from the start, and the start
FineTargets == {0, 21, 30, 41, 50}
FineDeltaTimes == {1, 2}

InitMove == InitFrom(createUnit(EmptyWorld(0, 0), 0))

\* movement.setTarget(x, z) by a move command on the unit
MoveFine(x) ==
  Apply([Cur EXCEPT !.fault = FALSE, !.ret = "void",
                    !.movement[0] = setTarget(@, x)], Op("move", x))

\* one frame of the movement system; out: the distance to the target
\* before the frame, -1 without a target
TickFine(dt) ==
  Apply(MovementSystem_updateAt([Cur EXCEPT !.fault = FALSE, !.ret = "void"],
                                dt, FineUnit),
        [op |-> "moveTick", arg |-> dt,
         out |-> IF movement[0].targetPosition = NoVec THEN -1
                 ELSE Abs(movement[0].targetPosition[1] - transform[0])])

MoveFineAny == \E x \in FineTargets : MoveFine(x)
TickFineAny == \E dt \in FineDeltaTimes : TickFine(dt)

NextMove == MoveFineAny \/ TickFineAny

SpecMove == InitMove /\ [][NextMove]_vars

\* the animation loop keeps calling World.update: frames never stop
SpecMoveLive == SpecMove /\ WF_vars(TickFineAny)

(***************************************************************************)
(* Specification of the economy: a worker with the default gathering       *)
(* component within reach of a gold node and of the base, the building     *)
(* and training commands and the frames (gathering, deposits, production)  *)
(***************************************************************************)
GamePools == {[gold |-> 100, wood |-> 50], [gold |-> 200, wood |-> 160]}

Init == \E p \in GamePools :
  InitFrom([GatherWorld(<<DefaultGatherRate, DefaultCarryCapacity>>, MaxAmount, 0)
              EXCEPT !.pool = p])

UpdateGame == \E dt \in DeltaTimes \cup LongDeltaTimes, p \in Pointers : Update(dt, p)

Next ==
  \/ UpdateGame
  \/ EnterAny
  \/ CancelBuildMode
  \/ ConfirmBuild
  \/ TrainAny

Spec == Init /\ [][Next]_vars

(***************************************************************************)
(* Actions on the registry and on the scheduler                            *)
(***************************************************************************)
\* the state a call starts from: no fault, no result, no recorded invocation
Call == [Cur EXCEPT !.fault = FALSE, !.ret = "void", !.handed = <<>>]

CreateEntity ==
  /\ nextId < MaxWorldIds
  /\ Apply(createEntity(Call), [op |-> "createEntity", arg |-> NoId, out |-> nextId])

AddComponent(e, type) == Apply(addComponent(Call, e, type), Op("entity", 0))

Disable(e) == Apply(disable(Call, e), Op("entity", 0))

Enable(e) == Apply(enable(Call, e), Op("entity", 0))

\* out: 1 when the id was in the destruction queue before the call
DestroyQueued(id) ==
  Apply(destroyEntity(Call, id),
        [op |-> "destroyEntity", arg |-> id,
         out |-> IF id \in toDestroy THEN 1 ELSE 0])

RemoveEntity(id) ==
  Apply([removeEntity(Call, id) EXCEPT
           !.ret = IF id \in entities THEN "true" ELSE "false"],
        Op("removeEntity", 0))

Clear == Apply(clear(Call), Op("clear", 0))

Register(sys) ==
  /\ Len(systems) < MaxSystems
  /\ Apply(register(Call, sys), Op("register", priorityOf(sys)))

Unregister(sys) == Apply(unregister(Call, sys), Op("unregister", priorityOf(sys)))

\* one frame: World.update(deltaTime) over the registered systems
UpdateWorld(dt) ==
  LET s == update(Cur, dt)
  IN /\ s.nextId <= MaxWorldIds
     /\ Apply(s, Op("worldUpdate", dt))

(***************************************************************************)
(* Specification of the registry: entities are created, given components,  *)
(* disabled and enabled, queued for destruction, removed; frames flush the *)
(* destruction queue; the world is cleared                                 *)
(***************************************************************************)
\* the kinds attached by hand in the runs of the registry
AttachedKinds == {"transform", "movement"}

InitRegistry == InitFrom(EmptyWorld(0, 0))

AddAny == \E e \in entities, type \in AttachedKinds : AddComponent(e, type)
DisableAny == \E e \in entities : Disable(e)
EnableAny == \E e \in entities : Enable(e)
\* the ids issued so far: those of entities removed since resolve to nothing
QueueAny == \E id \in 0 .. (nextId - 1) : DestroyQueued(id)
RemoveAny == \E id \in 0 .. (nextId - 1) : RemoveEntity(id)
UpdateFrame == \E dt \in {5} : UpdateWorld(dt)

NextRegistry ==
  \/ CreateEntity
  \/ AddAny
  \/ DisableAny
  \/ EnableAny
  \/ QueueAny
  \/ RemoveAny
  \/ UpdateFrame
  \/ Clear

SpecRegistry == InitRegistry /\ [][NextRegistry]_vars

(***************************************************************************)
(* Specification of one entity's components: entities are created and      *)
(* component instances are attached to them, a second instance of a kind   *)
(* over the first                                                          *)
(***************************************************************************)
\* the component instances attached: two transforms and two movement
\* components that differ in their fields
ComponentInstances ==
  <<[type |-> "transform", value |-> 0],
    [type |-> "transform", value |-> 2],
    [type |-> "movement", value |-> MovementComponent(UnitSpeed)],
    [type |-> "movement", value |-> setTarget(MovementComponent(UnitSpeed), 7)]>>

\* entity.addComponent(ComponentInstances[i]); out: i, plus the number of
\* instances when the kind was attached before the call
Attach(e, i) ==
  Apply(components_set(Call, e, ComponentInstances[i]),
        [op |-> "addComponent", arg |-> e,
         out |-> IF hasComponents(Cur, e, {ComponentInstances[i].type})
                 THEN i + Len(ComponentInstances) ELSE i])

AttachAny == \E e \in entities, i \in DOMAIN ComponentInstances : Attach(e, i)

NextEntity == CreateEntity \/ AttachAny

SpecEntity == InitRegistry /\ [][NextEntity]_vars

(***************************************************************************)
(* Specification of the scheduler: systems are registered and              *)
(* unregistered, frames run them, entities are queued for destruction     *)
(* between frames.  The systems: a spawner of priority 5,   *)
(* a reaper with no priority, a mover of priority 10 (the priority and     *)
(* requirements of MovementSystem), a selection system of priority 0 and   *)
(* a disabled system.                                                      *)
(***************************************************************************)
SystemCatalogue ==
  {[name |-> "spawner", priority |-> <<5>>, enabled |-> TRUE,
    requiredComponents |-> {}, role |-> "spawn", rank |-> 0],
   [name |-> "reaper", priority |-> <<>>, enabled |-> TRUE,
    requiredComponents |-> {"selectable"}, role |-> "reap", rank |-> 0],
   [name |-> "mover", priority |-> <<10>>, enabled |-> TRUE,
    requiredComponents |-> {"movement", "transform"}, role |-> "observe", rank |-> 0],
   [name |-> "selection", priority |-> <<0>>, enabled |-> TRUE,
    requiredComponents |-> {"selectable"}, role |-> "observe", rank |-> 0],
   [name |-> "paused", priority |-> <<0>>, enabled |-> FALSE,
    requiredComponents |-> {}, role |-> "observe", rank |-> 0]}

InitSched == InitFrom(EmptyWorld(0, 0))

\* each system instance is registered while it is not in the list, as the
\* game registers its systems
RegisterAny ==
  \E sys \in SystemCatalogue : indexOf(systems, sys) = 0 /\ Register(sys)
UnregisterAny == \E sys \in SystemCatalogue : Unregister(sys)

NextSched == RegisterAny \/ UnregisterAny \/ UpdateFrame \/ QueueAny

SpecSched == InitSched /\ [][NextSched]_vars

(***************************************************************************)
(* Claims on the resource node and on gathering                            *)
(***************************************************************************)
\* C2: for every Gathering component, 0 <= currentCarry <= carryCapacity in
\* every state reachable by gathering ticks, for all positive gatherRate and
\* carryCapacity and all node amounts.
C2_CarryWithinCapacity ==
  \A e \in DOMAIN gathering :
     /\ 0 <= gathering[e].currentCarry
     /\ gathering[e].currentCarry <= gathering[e].carryCapacity

\* C3: for every Gathering component, the carried kind is non-null exactly
\* when currentCarry > 0, also after a gather event on a node whose amount is
\* 0 but which is not flagged depleted, and after a deposit.
C3_KindIffCarrying ==
  \A e \in DOMAIN gathering :
     (gathering[e].resourceType /= NoType) <=> (gathering[e].currentCarry > 0)

\* C4: for every Resource Node amount >= 0 in every state, and no call
\* gather(n), for any numeric n, leaves the amount larger than it was.
C4_AmountNeverIncreases ==
  [][\A e \in (DOMAIN resource) \cap (DOMAIN resource') :
        /\ resource'[e].amount >= 0
        /\ resource'[e].amount <= resource[e].amount]_vars

\* C5: for every Resource Node, depleted = TRUE exactly when amount = 0, from
\* construction with any initial amount >= 0 and after any gather calls.
C5_DepletedIffZero ==
  \A e \in DOMAIN resource : resource[e].depleted <=> (resource[e].amount = 0)

(***************************************************************************)
(* Claims on the pool, selection and production                            *)
(***************************************************************************)
\* C1: in every state reachable by any interleaving of enter-build-mode,
\* cancel-build-mode, confirm-build, train-unit and ticks, both counters of
\* the Shared Resource Pool are >= 0.
C1_PoolNeverNegative == pool.gold >= 0 /\ pool.wood >= 0

SelectedSet(s) ==
  {e \in (DOMAIN s.selectable) \cap s.entities : s.selectable[e].isSelected}

\* C6: after any sequence of selection requests, ticks and destructions at
\* most one entity has isSelected = TRUE, and in the state of a selection
\* request between its deselection and its selection as well.
C6_AtMostOneSelected ==
  /\ Cardinality(SelectedSet(Cur)) <= 1
  /\ Cardinality(SelectedSet(deselectCurrent(Cur))) <= 1
  /\ \A hit \in Hits : Cardinality(SelectedSet(handleSelection(Cur, hit))) <= 1

\* a selection request has selected one of several selectable entities
C6_Witness ==
  /\ lastOp.op = "select"
  /\ selected /= NoId
  /\ lastOp.arg = selected
  /\ SelectedSet(Cur) = {selected}
  /\ Cardinality((DOMAIN selectable) \cap entities) >= 2

\* C7: for every Production Queue, after any sequence of trainUnit calls and
\* production ticks, the queue length is <= maxQueueSize.
C7_QueueWithinMax ==
  \A b \in DOMAIN prodq : Len(prodq[b].queue) <= prodq[b].maxQueueSize

\* a trainUnit call that the pool could pay was rejected by a full queue
C7_Witness ==
  /\ lastOp.op = "trainUnit"
  /\ ret = "false"
  /\ lastOp.arg \in DOMAIN prodq
  /\ Len(prodq[lastOp.arg].queue) = prodq[lastOp.arg].maxQueueSize
  /\ pool.gold >= UnitCost.gold

NewJob == [unitType |-> "worker", progress |-> 0, cost |-> UnitCost]

\* the step of one queue from q to q2 in a production tick
TickStep(q, q2) ==
  \/ q = <<>> /\ q2 = <<>>
  \/ /\ q /= <<>>
     /\ Len(q2) = Len(q)
     /\ q2[1].progress >= q[1].progress
     /\ \A i \in 2 .. Len(q) : q2[i] = q[i]
  \/ q /= <<>> /\ q2 = Tail(q)

\* C8: production is FIFO with one job in progress per building: a tick
\* changes only the head job's progress, which does not decrease, or removes
\* the head; every non-head job has progress 0; jobs enter at the tail only.
C8_FifoOneInProgress ==
  [][\A b \in (DOMAIN prodq) \cap (DOMAIN prodq') :
        LET q == prodq[b].queue
            q2 == prodq'[b].queue
        IN /\ lastOp'.op = "update" => TickStep(q, q2)
           /\ lastOp'.op /= "update" => (q2 = q \/ q2 = Append(q, NewJob))
           /\ \A i \in 2 .. Len(q2) : q2[i].progress = 0]_vars

\* a job has completed and been removed while the next one, now the head, is
\* in progress and a third waits at progress 0
C8_Witness ==
  /\ lastOp.op = "update"
  /\ \E b \in DOMAIN prodq :
        /\ Len(prodq[b].queue) >= 2
        /\ prodq[b].queue[1].progress > 0
        /\ prodq[b].queue[2].progress = 0
  /\ DOMAIN gathering /= {}

\* C9: a trainUnit call that fails returns false and mutates nothing: the
\* pool, every queue and the registry are the same after it as before.
C9_FailedTrainMutatesNothing ==
  [][(lastOp'.op = "trainUnit" /\ ret' /= "true") =>
        /\ ret' = "false"
        /\ pool' = pool
        /\ prodq' = prodq
        /\ entities' = entities
        /\ nextId' = nextId
        /\ building' = building
        /\ transform' = transform
        /\ gathering' = gathering]_vars

\* a trainUnit call on a building with a queue has failed because the pool
\* holds less gold than the unit costs
C9_Witness ==
  /\ lastOp.op = "trainUnit"
  /\ ret = "false"
  /\ lastOp.arg \in DOMAIN prodq
  /\ pool.gold < UnitCost.gold
  /\ Len(prodq[lastOp.arg].queue) < prodq[lastOp.arg].maxQueueSize

\* C10: a trainUnit call that succeeds deducts the unit cost from the pool
\* and appends one job with progress 0 at the tail of that building's queue,
\* leaving the other queues alone; no other step than a training or a
\* placement changes the pool, the completion of a job included.
C10_ChargedOnceAtEnqueue ==
  [][/\ (lastOp'.op = "trainUnit" /\ ret' = "true") =>
           LET b == lastOp'.arg
           IN /\ b \in DOMAIN prodq
              /\ pool' = [gold |-> pool.gold - UnitCost.gold,
                          wood |-> pool.wood - UnitCost.wood]
              /\ prodq'[b].queue = Append(prodq[b].queue, NewJob)
              /\ \A c \in (DOMAIN prodq) \ {b} : prodq'[c] = prodq[c]
     /\ lastOp'.op \notin {"trainUnit", "placeBuilding"} => pool' = pool
     /\ (lastOp'.op = "update" /\ nextId' > nextId) => pool' = pool]_vars

\* a successful trainUnit call has put its job behind a head job in progress
C10_Witness ==
  /\ lastOp.op = "trainUnit"
  /\ ret = "true"
  /\ LET q == prodq[lastOp.arg].queue
     IN /\ Len(q) >= 2
        /\ q[1].progress > 0
        /\ q[Len(q)] = NewJob

(***************************************************************************)
(* Claims on completion, stale targets, movement and the registry          *)
(***************************************************************************)
\* the progress one tick of dt adds to the head job of queue component q
TickProgress(q, dt) == (dt * q.productionRate * ProductionScale) \div TimeScale

\* C11: on the tick in which a building's head job reaches progress >= 100
\* exactly one entity per completing building is created, each with a fresh
\* Gathering component, and exactly the head job leaves the queue; a building
\* completes at most one job in a tick, whatever deltaTime is.
C11_OneCompletionPerTick ==
  [][lastOp'.op = "update" =>
       LET dt == lastOp'.arg
           due == {b \in DOMAIN prodq :
                     /\ prodq[b].queue /= <<>>
                     /\ prodq[b].queue[1].progress + TickProgress(prodq[b], dt)
                          >= ProgressDone}
           born == entities' \ entities
       IN /\ \A b \in DOMAIN prodq :
                /\ b \in DOMAIN prodq'
                /\ Len(prodq'[b].queue) >= Len(prodq[b].queue) - 1
                /\ b \in due => prodq'[b].queue = Tail(prodq[b].queue)
                /\ b \notin due => Len(prodq'[b].queue) = Len(prodq[b].queue)
          /\ Cardinality(born) = Cardinality(due)
          /\ nextId' = nextId + Cardinality(due)
          /\ \A e \in born :
                /\ e \in DOMAIN gathering'
                /\ gathering'[e].currentCarry = 0
                /\ gathering'[e].resourceType = NoType
                /\ gathering'[e].targetResourceId = NoId
                /\ ~gathering'[e].isGathering]_vars

\* a ten-second tick has completed one job and left the next one, now the
\* head, at progress 0, and the unit it created carries a Gathering component
C11_Witness ==
  /\ lastOp.op = "update"
  /\ lastOp.arg = 50
  /\ \E b \in DOMAIN prodq :
        /\ prodq[b].queue /= <<>>
        /\ prodq[b].queue[1].progress = 0
  /\ \E e \in DOMAIN gathering : e = nextId - 1

\* C12: on a tick where a stationary worker has a target node set and the
\* node is no longer in the registry or is depleted, the worker ends the tick
\* without that target, with its gathering flag cleared, and no fault is
\* raised.
C12_StaleTargetCleared ==
  [][lastOp'.op = "update" =>
       \A e \in (DOMAIN gathering) \cap (DOMAIN movement) \cap (DOMAIN transform)
                 \cap getEnabledEntities(Cur) :
          LET r == gathering[e].targetResourceId
          IN (/\ r /= NoId
              /\ ~movement[e].isMoving
              /\ \/ getEntity(Cur, r) = NoId
                 \/ r \in DOMAIN resource /\ resource[r].depleted)
             => /\ e \in DOMAIN gathering'
                /\ gathering'[e].targetResourceId /= r
                /\ ~gathering'[e].isGathering
                /\ ~fault']_vars

\* the worker of the scenario: carryCapacity 10, gatherRate 10, not moving,
\* with node r as its target
ScenarioWorker(e, r) ==
  /\ e \in (DOMAIN gathering) \cap (DOMAIN movement) \cap (DOMAIN transform)
             \cap getEnabledEntities(Cur)
  /\ gathering[e].gatherRate = 10
  /\ gathering[e].carryCapacity = 10
  /\ gathering[e].targetResourceId = r
  /\ truthy(r)
  /\ ~movement[e].isMoving
  /\ r \in (DOMAIN resource) \cap (DOMAIN transform) \cap entities
  /\ resource[r].type = "gold"

\* the tick of dt completes a gather interval of worker e on node r, which
\* holds amount 5, with e in range and carrying nothing
ScenarioEvent(e, r, dt) ==
  /\ ScenarioWorker(e, r)
  /\ gathering[e].currentCarry = 0
  /\ resource[r].amount = 5
  /\ ~resource[r].depleted
  /\ distanceTo(transform[e], transform[r]) < GatherRange
  /\ gathering[e].gatherTimer + dt >= GatherInterval

\* C13: a worker with carryCapacity 10 and gatherRate 10, stationary in range
\* of its target gold node holding amount 5: after the tick that completes
\* one gather interval currentCarry = 5, the node has amount 0 and is
\* depleted, and the worker's target reference is cleared.
C13_TargetClearedAtEvent ==
  [][lastOp'.op = "update" =>
       \A e \in DOMAIN gathering, r \in DOMAIN resource :
          ScenarioEvent(e, r, lastOp'.arg) =>
             /\ gathering'[e].currentCarry = 5
             /\ resource'[r].amount = 0
             /\ resource'[r].depleted
             /\ gathering'[e].targetResourceId = NoId]_vars

\* C13 as amended: after the tick that completes the gather interval
\* currentCarry = 5, the node has amount 0 and is depleted and the target is
\* still set; the next tick that finds the worker stationary and the node in
\* the registry clears the target and the gathering flag, with no fault.
C13_TargetClearedNextTick ==
  [][lastOp'.op = "update" =>
       \A e \in DOMAIN gathering, r \in DOMAIN resource :
          /\ ScenarioEvent(e, r, lastOp'.arg) =>
                /\ gathering'[e].currentCarry = 5
                /\ gathering'[e].resourceType = "gold"
                /\ resource'[r].amount = 0
                /\ resource'[r].depleted
                /\ gathering'[e].targetResourceId = r
          /\ (/\ ScenarioWorker(e, r)
              /\ gathering[e].currentCarry = 5
              /\ resource[r].amount = 0
              /\ resource[r].depleted) =>
                /\ gathering'[e].targetResourceId = NoId
                /\ ~gathering'[e].isGathering
                /\ gathering'[e].currentCarry = 5
                /\ ~fault']_vars

\* the tick after the gather event has cleared the target of the worker that
\* carries the 5 gold of the now depleted node
C13_Witness ==
  /\ lastOp.op = "update"
  /\ \E e \in DOMAIN gathering, r \in DOMAIN resource :
        /\ gathering[e].gatherRate = 10
        /\ gathering[e].carryCapacity = 10
        /\ gathering[e].currentCarry = 5
        /\ gathering[e].resourceType = "gold"
        /\ gathering[e].targetResourceId = NoId
        /\ ~gathering[e].isGathering
        /\ resource[r].type = "gold"
        /\ resource[r].maxAmount = 5
        /\ resource[r].amount = 0
        /\ resource[r].depleted

\* C14: for every Movement component isMoving implies a non-null target, in
\* every state reached by move commands, ticks and the gathering system's
\* movement commands; and a tick in which an entity reaches its target
\* leaves it with the target and isMoving cleared together.
C14_MovingHasTarget ==
  /\ [](\A e \in DOMAIN movement :
          movement[e].isMoving => movement[e].targetPosition /= NoVec)
  /\ [][lastOp'.op = "update" =>
          \A e \in (DOMAIN movement) \cap (DOMAIN transform) \cap getEnabledEntities(Cur) :
             (/\ movement[e].targetPosition /= NoVec
              /\ transform'[e] = movement[e].targetPosition[1])
             => /\ movement'[e].targetPosition = NoVec
                /\ ~movement'[e].isMoving]_vars

\* a unit sent from x = 2 to the ground point 7 stands there after a tick,
\* with no target and not moving
C14_Witness ==
  /\ lastOp.op = "update"
  /\ \E e \in DOMAIN movement :
        /\ transform[e] = 7
        /\ movement[e].targetPosition = NoVec
        /\ ~movement[e].isMoving

\* the views of the world the systems of the last frame had, in order
ViewsOf(calls) ==
  [i \in 1 .. (2 * Len(calls)) |->
     IF i % 2 = 1 THEN calls[(i + 1) \div 2].before ELSE calls[i \div 2].after]

\* the ids queued for destruction at some point of the frame
QueuedIn(views, queuedAtStart) ==
  queuedAtStart \cup UNION {views[i].queued : i \in DOMAIN views}

\* C15: entity removal is deferred: a call of destroyEntity changes neither
\* the registry nor any entity; every system of a frame sees the queued
\* entities in the registry, enabled as before and with all their
\* components; when World.update returns the queued entities are out of
\* the registry and the destruction queue is empty.
C15_RemovalDeferred ==
  [][/\ lastOp'.op = "destroyEntity" =>
           /\ entities' = entities
           /\ disabled' = disabled
           /\ \A e \in entities : getComponentTypes(Cur', e) = getComponentTypes(Cur, e)
     /\ lastOp'.op = "worldUpdate" =>
           LET views == ViewsOf(handed')
               queued == QueuedIn(views, toDestroy)
           IN /\ \A i \in DOMAIN views, id \in queued \cap entities :
                    /\ id \in views[i].registry
                    /\ id \notin disabled => id \in views[i].enabled
                    /\ views[i].types[id] = getComponentTypes(Cur, id)
              /\ \A i \in DOMAIN views, j \in DOMAIN views :
                    i <= j => views[i].registry \subseteq views[j].registry
              /\ toDestroy' = {}
              /\ queued \cap entities' = {}
              /\ \A id \in queued : getComponentTypes(Cur', id) = {}]_vars

\* a frame in which one system called destroyEntity on an entity, a later
\* system was handed that entity, and the entity is gone after the frame
C15_Witness ==
  /\ lastOp.op = "worldUpdate"
  /\ \E i \in DOMAIN handed, j \in DOMAIN handed :
        /\ i < j
        /\ handed[i].system.role = "reap"
        /\ \E k \in DOMAIN handed[i].matching :
              LET id == handed[i].matching[k]
              IN /\ id \notin handed[i].before.queued
                 /\ id \in handed[j].before.queued
                 /\ \E m \in DOMAIN handed[j].matching : handed[j].matching[m] = id
                 /\ id \notin entities

\* C16: destroyEntity is idempotent within a tick: a call on an id that is
\* already queued changes neither the destruction queue nor the registry
\* nor any entity, and the flush at the end of the tick yields the same
\* state as it would have without that call.
C16_DestroyIdempotent ==
  [][(lastOp'.op = "destroyEntity" /\ lastOp'.arg \in toDestroy) =>
        /\ toDestroy' = toDestroy
        /\ entities' = entities
        /\ disabled' = disabled
        /\ \A e \in entities : getComponentTypes(Cur', e) = getComponentTypes(Cur, e)
        /\ processDestructions(Cur') = processDestructions(Call)
        /\ processDestructions(destroyEntity(Cur', lastOp'.arg)) = processDestructions(Call)]_vars

\* destroyEntity has been called on an entity of the registry that was
\* already in the destruction queue
C16_Witness ==
  /\ lastOp.op = "destroyEntity"
  /\ lastOp.out = 1
  /\ lastOp.arg \in entities
  /\ lastOp.arg \in toDestroy
  /\ getComponentTypes(Cur, lastOp.arg) /= {}

\* system a runs before system b: lower priority first, and among equal
\* priorities the one registered first
RunsBefore(a, b) ==
  \/ priorityOf(a) < priorityOf(b)
  \/ priorityOf(a) = priorityOf(b) /\ a.rank < b.rank

\* the enabled systems of a list, in the order of the list
EnabledOf(list) ==
  LET on(sys) == sys.enabled
  IN SelectSeq(list, on)

\* C17: after any sequence of register and unregister calls the systems are
\* held in ascending priority, systems of equal priority in the order of
\* their registration; one World.update invokes the enabled systems one
\* after another in exactly that order.
C17_PriorityOrder ==
  /\ [](\A i \in DOMAIN systems, j \in DOMAIN systems :
          i < j => RunsBefore(systems[i], systems[j]))
  /\ [][lastOp'.op = "worldUpdate" =>
          /\ [i \in DOMAIN handed' |-> handed'[i].system] = EnabledOf(systems)
          /\ \A i \in DOMAIN handed', j \in DOMAIN handed' :
                i < j => RunsBefore(handed'[i].system, handed'[j].system)]_vars

\* a frame has run three systems, two of them of equal priority, and the
\* system that ran first was registered last
C17_Witness ==
  /\ lastOp.op = "worldUpdate"
  /\ Len(handed) = 3
  /\ priorityOf(handed[1].system) = priorityOf(handed[2].system)
  /\ priorityOf(handed[2].system) < priorityOf(handed[3].system)
  /\ handed[3].system.rank < handed[2].system.rank
  /\ handed[1].system.name /= handed[2].system.name

\* C18: the entities handed to a system are those of the registry, as it
\* is when the system is invoked, that are enabled and have the required
\* kinds: an entity an earlier system of the same tick created is handed to
\* every later system whose requirements it meets.
C18_SubsetFromCurrentRegistry ==
  [][lastOp'.op = "worldUpdate" =>
       \A i \in DOMAIN handed' :
          LET call == handed'[i]
          IN {call.matching[k] : k \in DOMAIN call.matching} =
             {e \in call.before.enabled :
                call.system.requiredComponents \subseteq call.before.types[e]}]_vars


\* the entities a query returns, as a set
Returned(kinds) ==
  LET found == queryEntities(Cur, kinds)
  IN {found[i] : i \in DOMAIN found}

\* C19: queryEntities(kinds) returns, each once, exactly the entities of the
\* registry that are enabled and have every kind of kinds attached: never a
\* removed or a disabled entity, never short of a matching one; with no
\* kinds it returns every enabled entity.
C19_QueryExact ==
  /\ \A kinds \in SUBSET ComponentKinds :
       /\ Returned(kinds) =
            {e \in entities : /\ e \notin disabled
                              /\ kinds \subseteq getComponentTypes(Cur, e)}
       /\ Len(queryEntities(Cur, kinds)) = Cardinality(Returned(kinds))
  /\ Returned({}) = entities \ disabled

\* a disabled entity and an enabled one both have a transform and a
\* movement component; the query for the two kinds returns the enabled one
\* only, and the query for a kind neither has returns nothing
C19_Witness ==
  /\ entities = {0, 1} /\ disabled = {0}
  /\ getComponentTypes(Cur, 0) = {"transform", "movement"}
  /\ getComponentTypes(Cur, 1) = {"transform", "movement"}
  /\ queryEntities(Cur, {"transform", "movement"}) = <<1>>
  /\ queryEntities(Cur, {"selectable"}) = <<>>

\* C20: identifiers come from one counter that only grows: every identifier
\* in use is below the counter, no step lowers it, and an entity that
\* enters the registry has an identifier no earlier entity had; createEntity
\* returns the next identifier, and the entity it returns is in the
\* registry, enabled and without components.  No call of createEntity,
\* destroyEntity, removeEntity, update or clear changes this.
C20_IdsNeverReused ==
  /\ [](\A e \in entities : e < nextId)
  /\ [][/\ nextId' >= nextId
        /\ \A e \in entities' \ entities : nextId <= e /\ e < nextId'
        /\ lastOp'.op = "createEntity" =>
             /\ lastOp'.out = nextId
             /\ nextId' = nextId + 1
             /\ entities' = entities \cup {nextId}
             /\ enabled(Cur', nextId)
             /\ getComponentTypes(Cur', nextId) = {}]_vars

\* entity 0 was created and is gone, and the entity created after that,
\* into the empty registry, is entity 1
C20_Witness ==
  /\ lastOp.op = "createEntity"
  /\ lastOp.out = 1
  /\ entities = {1}
  /\ nextId = 2


(***************************************************************************)
(* Claims on components, building placement, gathering, movement and       *)
(* selection                                                               *)
(***************************************************************************)
\* the instance an addComponent step attached
Attached(op) == ComponentInstances[((op.out - 1) % Len(ComponentInstances)) + 1]

\* C21: an entity holds one component per kind: addComponent attaches the
\* given instance under its kind, in the place of an earlier instance of
\* that kind if there is one; the components of every other kind are the
\* same instances as before, and when the kind was attached already the
\* number of attached kinds is unchanged.
C21_OneComponentPerKind ==
  [][lastOp'.op = "addComponent" =>
       LET e == lastOp'.arg
           component == Attached(lastOp')
           before == getComponentTypes(Cur, e)
           after == getComponentTypes(Cur', e)
       IN /\ ComponentsOf(Cur', component.type)[e] = component.value
          /\ after = before \cup {component.type}
          /\ \A type \in before \ {component.type} :
                ComponentsOf(Cur', type)[e] = ComponentsOf(Cur, type)[e]
          /\ component.type \in before => Cardinality(after) = Cardinality(before)
          /\ \A other \in entities \ {e} :
                \A type \in getComponentTypes(Cur, other) :
                   ComponentsOf(Cur', type)[other] = ComponentsOf(Cur, type)[other]]_vars

\* a movement component without a target has just been attached over an
\* earlier movement component of entity 0, whose transform at 2 is kept
C21_Witness ==
  /\ lastOp = [op |-> "addComponent", arg |-> 0, out |-> 3 + Len(ComponentInstances)]
  /\ getComponentTypes(Cur, 0) = {"transform", "movement"}
  /\ movement[0] = MovementComponent(UnitSpeed)
  /\ transform[0] = 2


\* some building of the registry is closer than the minimum distance to x
TooClose(x) ==
  \E b \in (DOMAIN building) \cap (DOMAIN transform) \cap entities :
     distanceTo(x, transform[b]) < MinDistance

\* C22: a confirm-build while the ghost stands closer than the minimum
\* distance to an existing building changes nothing: the system is still
\* placing the same building kind at the same point, the pool is the same,
\* and no entity and no component is created or changed.
C22_InvalidConfirmRejected ==
  [][lastOp'.op = "placeBuilding" /\ placementMode /\ ghost /= NoVec
     /\ TooClose(ghost[1])
       => /\ placementMode' /\ buildingType' = buildingType /\ ghost' = ghost
          /\ pool' = pool
          /\ entities' = entities /\ nextId' = nextId
          /\ UNCHANGED <<transform, movement, gathering, resource, building,
                         prodq, selectable, toDestroy, selected, disabled>>]_vars

\* a confirm-build has been rejected: the system is still placing, with a
\* barracks at distance 2 of the ghost
C22_Witness ==
  /\ lastOp.op = "placeBuilding"
  /\ placementMode /\ ghost = Vec(2) /\ buildingType = "barracks"
  /\ \E b \in DOMAIN building : transform[b] = 0 /\ building[b].buildingType = "barracks"


\* the fixed cost of a building kind
FixedCost(type) ==
  IF type = "townhall" THEN [gold |-> 200, wood |-> 150] ELSE [gold |-> 100, wood |-> 80]

\* C23: a confirm-build while placing, the ghost at least the minimum
\* distance from every building, takes the fixed cost of the building kind
\* from the pool and creates exactly one entity, at the ghost's point, with
\* a Transform and a Building component of that kind and, if and only if
\* the kind is barracks, a production queue that is new and empty; the
\* system is inactive afterwards and no other entity is touched.
C23_ValidConfirmBuilds ==
  [][lastOp'.op = "placeBuilding" /\ placementMode /\ ghost /= NoVec
     /\ buildingType \in BuildingTypes /\ ~TooClose(ghost[1])
       => LET e == nextId
              kinds == {"transform", "building"} \cup
                       (IF buildingType = "barracks" THEN {"prodq"} ELSE {})
          IN /\ pool' = [gold |-> pool.gold - FixedCost(buildingType).gold,
                         wood |-> pool.wood - FixedCost(buildingType).wood]
             /\ e \notin entities /\ entities' = entities \cup {e}
             /\ getComponentTypes(Cur', e) = kinds
             /\ transform'[e] = ghost[1]
             /\ building'[e] = [buildingType |-> buildingType]
             /\ buildingType = "barracks" =>
                  /\ prodq'[e].queue = <<>>
                  /\ prodq'[e] = ProductionQueueComponent(DefaultProductionRate,
                                                          DefaultMaxQueueSize)
             /\ ~placementMode' /\ buildingType' = NoType /\ ghost' = NoVec
             /\ \A other \in entities :
                  /\ getComponentTypes(Cur', other) = getComponentTypes(Cur, other)
                  /\ \A type \in getComponentTypes(Cur, other) :
                       ComponentsOf(Cur', type)[other] = ComponentsOf(Cur, type)[other]]_vars

\* a town hall has just been placed at 7 for its cost of 200 gold and 150
\* wood: it has no production queue and the system is inactive
C23_Witness ==
  /\ lastOp.op = "placeBuilding" /\ ~placementMode
  /\ pool = [gold |-> 0, wood |-> 10]
  /\ \E b \in DOMAIN building :
        /\ building[b].buildingType = "townhall" /\ transform[b] = 7
        /\ getComponentTypes(Cur, b) = {"transform", "building"}


\* the building kind an enter-build-mode step asked for
Requested(op) == IF op.arg = 0 THEN "townhall" ELSE "barracks"

\* the pool and the registry with every component are left as they are
PoolAndRegistryKept ==
  /\ pool' = pool /\ entities' = entities /\ nextId' = nextId
  /\ UNCHANGED <<transform, movement, gathering, resource, building, prodq,
                 selectable, toDestroy, disabled>>

\* C24: an enter-build-mode request for a kind whose fixed cost the pool
\* does not cover, in gold or in wood, mutates nothing: an inactive system
\* stays inactive (and a placing one keeps placing what it was placing); a
\* request that does enter placement mode found the cost covered.  A
\* confirm-build while inactive, and a cancel-build-mode in any state,
\* change neither the pool nor the registry.
C24_EnterOnlyWhenAffordable ==
  [][/\ lastOp'.op = "enterPlacementMode" =>
          LET costs == FixedCost(Requested(lastOp'))
              covered == pool.gold >= costs.gold /\ pool.wood >= costs.wood
          IN /\ PoolAndRegistryKept
             /\ ~covered => /\ placementMode' = placementMode
                            /\ buildingType' = buildingType /\ ghost' = ghost
                            /\ selected' = selected
             /\ ~placementMode /\ ~covered => ~placementMode'
             /\ ~placementMode /\ placementMode' => covered
     /\ lastOp'.op = "placeBuilding" /\ ~placementMode =>
          PoolAndRegistryKept /\ ~placementMode'
     /\ lastOp'.op = "exitPlacementMode" => PoolAndRegistryKept /\ ~placementMode']_vars

\* a request for a barracks has just been refused for want of wood: the
\* pool holds the 100 gold but 50 of the 80 wood, and the system is inactive
C24_Witness ==
  /\ lastOp = Op("enterPlacementMode", 1)
  /\ ~placementMode /\ buildingType = NoType /\ ghost = NoVec
  /\ pool = [gold |-> 100, wood |-> 50]


\* the world as the gathering system finds it in a frame of dt: the
\* movement system has run
AtGathering(dt) == MovementSystem_update(Cur, dt)

\* the worker e is due to deposit in a frame of dt
DepositDue(e, dt) ==
  /\ gathering[e].currentCarry >= gathering[e].carryCapacity
  /\ ~AtGathering(dt).movement[e].isMoving
  /\ Abs(AtGathering(dt).transform[e]) < DepositRadius

EventDue(e, r, dt) ==
  /\ r \in (DOMAIN resource) \cap (DOMAIN transform) \cap entities
  /\ gathering[e].targetResourceId = r
  /\ ~AtGathering(dt).movement[e].isMoving
  /\ distanceTo(AtGathering(dt).transform[e], transform[r]) < GatherRange
  /\ ~resource[r].depleted
  /\ gathering[e].gatherTimer + dt >= GatherInterval

\* C26: a tick holds at most one gather event of a worker, however long the
\* frame: the event takes min(gatherRate, amount) from the node and adds the
\* same quantity to the carry, sets the carried kind to the kind of the node
\* and the gather timer to 0; no other node changes, and a tick without an
\* event changes no node and adds nothing to the carry.
C26_OneGatherEventPerTick ==
  [][lastOp'.op = "update" =>
       \A e \in (DOMAIN gathering) \cap (DOMAIN movement) \cap (DOMAIN transform) :
          LET g == gathering[e]
              dt == lastOp'.arg
              r == g.targetResourceId
              carry == IF DepositDue(e, dt) THEN 0 ELSE g.currentCarry
          IN IF r /= NoId /\ EventDue(e, r, dt)
             THEN LET taken == IF g.gatherRate <= resource[r].amount
                               THEN g.gatherRate ELSE resource[r].amount
                  IN /\ resource'[r].amount = resource[r].amount - taken
                     /\ gathering'[e].currentCarry = carry + taken
                     /\ gathering'[e].resourceType = resource[r].type
                     /\ gathering'[e].gatherTimer = 0
                     /\ \A other \in (DOMAIN resource) \ {r} :
                           resource'[other] = resource[other]
             ELSE /\ resource' = resource
                  /\ gathering'[e].currentCarry <= g.currentCarry]_vars

\* a frame of ten seconds has held one gather event: the worker of rate 3
\* carries 3 and the node of 12 holds 9
C26_Witness ==
  /\ lastOp = Op("update", 50)
  /\ gathering[0].gatherRate = 3 /\ gathering[0].currentCarry = 3
  /\ gathering[0].resourceType = "gold" /\ gathering[0].gatherTimer = 0
  /\ resource[1].amount = MaxAmount - 3


\* C27: when a gather event brings the carry of a worker to its capacity,
\* then at the end of that tick the gathering flag is false, the target
\* node reference is cleared and the Movement of the worker is moving, its
\* target the deposit point.
C27_FullLoadReturnsToBase ==
  [][lastOp'.op = "update" =>
       \A e \in (DOMAIN gathering) \cap (DOMAIN movement) \cap (DOMAIN transform) :
          LET g == gathering[e]
              r == g.targetResourceId
          IN (/\ r /= NoId /\ EventDue(e, r, lastOp'.arg)
              /\ g.currentCarry < g.carryCapacity
              /\ gathering'[e].currentCarry >= g.carryCapacity)
             => /\ ~gathering'[e].isGathering
                /\ gathering'[e].targetResourceId = NoId
                /\ movement'[e].isMoving
                /\ movement'[e].targetPosition = Vec(0)]_vars


\* the non-depleted resource nodes strictly within the search radius of x
NodesInReach(x) ==
  {r \in (DOMAIN resource) \cap (DOMAIN transform) \cap entities :
     ~resource[r].depleted /\ distanceTo(x, transform[r]) < SearchRadius}

\* the node of NodesInReach(x) at minimum distance, the first in scan order
\* among those at the same distance
NearestNode(x) ==
  CHOOSE r \in NodesInReach(x) :
     \A other \in NodesInReach(x) :
        \/ distanceTo(x, transform[r]) < distanceTo(x, transform[other])
        \/ distanceTo(x, transform[r]) = distanceTo(x, transform[other]) /\ r <= other

\* C28: a tick finds a worker idle (not gathering, not moving, carrying
\* nothing, without a target): if some non-depleted node is strictly within
\* the search radius, the nearest of them, the first in scan order among
\* equidistant ones, becomes the target and the worker is moving toward it;
\* if there is none, its Gathering and Movement components are unchanged.
C28_AutoAcquireNearest ==
  [][lastOp'.op = "update" =>
       \A e \in (DOMAIN gathering) \cap (DOMAIN movement) \cap (DOMAIN transform) :
          LET g == gathering[e]
              at == AtGathering(lastOp'.arg)
          IN (/\ ~g.isGathering /\ g.currentCarry = 0 /\ g.targetResourceId = NoId
              /\ ~at.movement[e].isMoving)
             => IF NodesInReach(at.transform[e]) /= {}
                THEN LET r == NearestNode(at.transform[e])
                     IN /\ gathering'[e].targetResourceId = r
                        /\ movement'[e].isMoving
                        /\ movement'[e].targetPosition = Vec(transform[r])
                ELSE /\ gathering'[e] = g
                     /\ movement'[e] = at.movement[e]]_vars


\* the distance a unit of speed v covers in a frame of dt, in steps of
\* position of the movement specification
Covered(v, dt) == (v * dt * FineUnit) \div TimeScale

\* the distance of entity e to the target x, in a state's transforms
Remaining(positions, e, x) == Abs(x - positions[e])

\* the new distance is at most the old one and the entity is not beyond
\* the target
NoOvershoot(e, x) ==
  /\ Remaining(transform', e, x) <= Remaining(transform, e, x)
  /\ (transform[e] <= x) => (transform'[e] <= x)
  /\ (transform[e] >= x) => (transform'[e] >= x)

\* C29: one movement tick of a moving entity either puts the entity exactly
\* on its target and makes it idle, when the remaining distance is at most
\* speed * deltaTime, or advances it by speed * deltaTime toward the target
\* and leaves it moving; the new distance is at most the old one and the
\* entity is never beyond the target.
C29_SnapOrAdvance ==
  [][lastOp'.op = "moveTick" =>
       \A e \in DOMAIN movement :
          movement[e].isMoving /\ movement[e].targetPosition /= NoVec =>
             LET x == movement[e].targetPosition[1]
                 step == Covered(movement[e].speed, lastOp'.arg)
             IN /\ IF Remaining(transform, e, x) <= step
                   THEN transform'[e] = x /\ movement'[e] = clearTarget(movement[e])
                   ELSE /\ Remaining(transform', e, x) = Remaining(transform, e, x) - step
                        /\ movement'[e] = movement[e]
                /\ NoOvershoot(e, x)]_vars

\* C29 as amended: a tick that finds the entity less than 0.1 from its
\* target makes it idle where it stands; otherwise the tick puts it exactly
\* on the target and makes it idle, when the remaining distance is at most
\* speed * deltaTime, or advances it by speed * deltaTime toward the target
\* and leaves it moving; the new distance is at most the old one and the
\* entity is never beyond the target.
C29_ArriveSnapOrAdvance ==
  [][lastOp'.op = "moveTick" =>
       \A e \in DOMAIN movement :
          movement[e].isMoving /\ movement[e].targetPosition /= NoVec =>
             LET x == movement[e].targetPosition[1]
                 step == Covered(movement[e].speed, lastOp'.arg)
                 left == Remaining(transform, e, x)
             IN /\ IF 10 * left < FineUnit
                   THEN transform'[e] = transform[e]
                        /\ movement'[e] = clearTarget(movement[e])
                   ELSE IF left <= step
                        THEN transform'[e] = x /\ movement'[e] = clearTarget(movement[e])
                        ELSE /\ Remaining(transform', e, x) = left - step
                             /\ movement'[e] = movement[e]
                /\ NoOvershoot(e, x)]_vars

\* a tick has found the unit 0.05 from its target and made it idle there,
\* at 1.0 of the start
C29_Witness ==
  /\ lastOp.op = "moveTick" /\ lastOp.out = 1
  /\ transform[0] = 20
  /\ movement[0] = clearTarget(movement[0])


\* C30: a selection request on empty space leaves no entity selected and
\* getSelectedEntity() equal to none; a request on the mesh of entity e
\* leaves e, and e alone, selected and getSelectedEntity() equal to the id
\* of e, also when e was the selected entity before the request.
C30_SelectionFollowsRequest ==
  [][lastOp'.op = "select" =>
       /\ lastOp'.arg = NoHit =>
            /\ SelectedSet(Cur') = {}
            /\ getSelectedEntity(Cur') = NoId
       /\ lastOp'.arg \in (DOMAIN selectable) \cap entities =>
            /\ selectable'[lastOp'.arg].isSelected
            /\ SelectedSet(Cur') = {lastOp'.arg}
            /\ getSelectedEntity(Cur') = lastOp'.arg]_vars

\* a click on empty space among three selectable units: none of them is
\* selected and the accessor returns none
C30_Witness ==
  /\ lastOp = Op("select", NoHit)
  /\ getSelectedEntity(Cur) = NoId
  /\ SelectedSet(Cur) = {}
  /\ Cardinality((DOMAIN selectable) \cap entities) = 3


(***************************************************************************)
(* Claims on faults, liveness, conservation and the frame of the commands  *)
(***************************************************************************)
\* C31: no tick faults: in every reachable state the last World.update has
\* run every system to its end without raising an error, the movement
\* commands of the gathering system on a Movement without a target included.
C31_NoTickFaults == lastOp.op = "update" => ~fault


\* the worker e stands still in range of its target node r, which is not
\* depleted, in a frame of dt
InRangeOfTarget(e, r, dt) ==
  /\ r \in (DOMAIN resource) \cap (DOMAIN transform) \cap entities
  /\ gathering[e].targetResourceId = r
  /\ ~AtGathering(dt).movement[e].isMoving
  /\ distanceTo(AtGathering(dt).transform[e], transform[r]) < GatherRange
  /\ ~resource[r].depleted

\* C32: a worker that stands still within gathering range of its target
\* node, not depleted, accumulates the frame time in its gather timer and
\* performs a gather event in the tick in which the timer reaches the
\* interval, whatever identifier the node has, the identifier 0 included.
C32_GathersFromAnyId ==
  [][lastOp'.op = "update" =>
       \A e \in (DOMAIN gathering) \cap (DOMAIN movement) \cap (DOMAIN transform) :
          LET g == gathering[e]
              dt == lastOp'.arg
              r == g.targetResourceId
          IN r /= NoId /\ InRangeOfTarget(e, r, dt) /\ ~DepositDue(e, dt) =>
               IF g.gatherTimer + dt >= GatherInterval
               THEN LET taken == IF g.gatherRate <= resource[r].amount
                                 THEN g.gatherRate ELSE resource[r].amount
                    IN /\ resource'[r].amount = resource[r].amount - taken
                       /\ gathering'[e].currentCarry = g.currentCarry + taken
                       /\ gathering'[e].gatherTimer = 0
               ELSE gathering'[e].gatherTimer = g.gatherTimer + dt]_vars


\* the unit is moving toward x
MovingTo(x) == movement[0].isMoving /\ movement[0].targetPosition = Vec(x)

\* the unit has been sent elsewhere
Redirected(x) == movement[0].isMoving /\ movement[0].targetPosition /= Vec(x)

\* the unit is idle, on x or less than 0.1 from it
IdleNear(x) ==
  /\ ~movement[0].isMoving
  /\ movement[0].targetPosition = NoVec
  /\ ArrivalFactor * (x - transform[0]) * (x - transform[0]) < FineUnit * FineUnit

\* C33: an entity that is moving (its speed is positive) and receives no
\* other command is idle, exactly on its target, after finitely many
\* movement ticks of positive deltaTime.
C33_MovingReachesTarget ==
  \A x \in FineTargets :
     MovingTo(x) ~> \/ ~movement[0].isMoving /\ transform[0] = x
                    \/ Redirected(x)

\* C33 as amended: an entity that is moving and receives no other command
\* is idle, on its target or less than 0.1 from it, after finitely many
\* movement ticks of positive deltaTime.
C33_MovingBecomesIdleNearTarget ==
  \A x \in FineTargets :
     MovingTo(x) ~> (IdleNear(x) \/ Redirected(x))

\* the unit has arrived: a tick found it 0.5 from the target at 2.5 and put
\* it there, idle
C33_Witness ==
  /\ lastOp.op = "moveTick" /\ lastOp.out = 10
  /\ transform[0] = 50
  /\ ~movement[0].isMoving /\ movement[0].targetPosition = NoVec


\* the identifiers a worker can have in the gathering worlds
Workers == {0, 1}

\* worker e carries a full load
FullLoad(e) ==
  /\ e \in entities /\ e \in DOMAIN gathering
  /\ gathering[e].currentCarry >= gathering[e].carryCapacity

\* worker e carries nothing
EmptyLoad(e) ==
  /\ e \in entities /\ e \in DOMAIN gathering
  /\ gathering[e].currentCarry = 0

\* C34: with frames continuing and no command of the player, a worker whose
\* carry has reached its capacity eventually deposits: its carry is 0 again
\* (and it can acquire a node again).
C34_FullLoadIsDeposited ==
  \A e \in Workers :
     FullLoad(e) ~> EmptyLoad(e)


\* worker e holds part of a load and its target node is depleted
PartLoadAtDepleted(e) ==
  /\ e \in entities /\ e \in DOMAIN gathering
  /\ gathering[e].currentCarry > 0
  /\ gathering[e].currentCarry < gathering[e].carryCapacity
  /\ gathering[e].targetResourceId \in DOMAIN resource
  /\ resource[gathering[e].targetResourceId].depleted

\* the target of worker e is a node that is not depleted
HasLiveTarget(e) ==
  /\ e \in entities /\ e \in DOMAIN gathering
  /\ gathering[e].targetResourceId \in DOMAIN resource
  /\ ~resource[gathering[e].targetResourceId].depleted

\* C35: a worker whose target becomes depleted while it holds a carry
\* strictly between 0 and its capacity eventually acquires another node
\* that is not depleted, or deposits (its carry is 0 again).
C35_NotStrandedByDepletion ==
  \A e \in Workers :
     PartLoadAtDepleted(e) ~> (HasLiveTarget(e) \/ EmptyLoad(e))


\* the sum of f over the set S of its arguments
RECURSIVE SumOver(_, _)
SumOver(f, S) ==
  IF S = {} THEN 0
  ELSE LET x == CHOOSE y \in S : TRUE
       IN f[x] + SumOver(f, S \ {x})

\* the units of one kind in state s: in the nodes, carried by the workers
\* and in the pool
KindTotal(s, kind) ==
  SumOver([r \in DOMAIN s.resource |->
             IF s.resource[r].type = kind THEN s.resource[r].amount ELSE 0],
          DOMAIN s.resource)
  + SumOver([e \in DOMAIN s.gathering |->
               IF s.gathering[e].resourceType = kind
               THEN s.gathering[e].currentCarry ELSE 0],
            DOMAIN s.gathering)
  + s.pool[kind]

\* C36: gathering conserves the resources: for each kind, the amounts in
\* the nodes plus the carries of that kind plus what the pool holds of that
\* kind are the same after a tick as before it.
C36_GatheringConserves ==
  [][lastOp'.op = "update" =>
       \A kind \in {"gold", "wood"} : KindTotal(Cur', kind) = KindTotal(Cur, kind)]_vars

\* a load of gold has been deposited and the worker carries gold again
C36_Witness ==
  /\ lastOp.op = "update"
  /\ pool.gold > 0
  /\ \E e \in DOMAIN gathering :
        gathering[e].currentCarry > 0 /\ gathering[e].resourceType = "gold"


\* C37: when getSelectedEntity() returns an identifier, the identifier
\* resolves to an entity of the registry whose Selectable component has
\* isSelected true (also after the selected entity is destroyed and after a
\* selection request whose hit maps to no selectable entity).
C37_SelectedIdResolves ==
  getSelectedEntity(Cur) /= NoId =>
     /\ getEntity(Cur, getSelectedEntity(Cur)) /= NoId
     /\ getSelectedEntity(Cur) \in DOMAIN selectable
     /\ selectable[getSelectedEntity(Cur)].isSelected


\* the buildings of the registry
Buildings == (DOMAIN building) \cap (DOMAIN transform) \cap entities

\* C38: two buildings created by confirming a placement, both still in the
\* registry, are at least 5 apart.
C38_BuildingsApart ==
  \A a \in Buildings, b \in Buildings :
     a /= b => distanceTo(transform[a], transform[b]) >= MinDistance

\* two buildings stand exactly 5 apart
C38_Witness ==
  \E a \in Buildings, b \in Buildings :
     /\ a /= b
     /\ distanceTo(transform[a], transform[b]) = MinDistance


\* state s without the outcome of the last call
Effects(s) == [s EXCEPT !.fault = FALSE, !.ret = "void"]

\* C39: a move command changes the Movement of the selected entity and
\* nothing else: with no selection, with a selection that resolves to no
\* entity or with no ground point it changes nothing; otherwise the
\* Movement of every other entity and every Transform are as before.
C39_MoveChangesSelectedOnly ==
  [][lastOp'.op = "move" =>
       /\ transform' = transform
       /\ DOMAIN movement' = DOMAIN movement
       /\ \A e \in DOMAIN movement :
             e /= selected => movement'[e] = movement[e]
       /\ [Effects(Cur') EXCEPT !.movement = movement] = Effects(Cur)
       /\ (selected = NoId \/ selected \notin entities \/ lastOp'.arg = NoId)
             => Effects(Cur') = Effects(Cur)]_vars

\* the selected unit has been sent to a ground point while the other unit
\* is on its way elsewhere
C39_Witness ==
  /\ lastOp.op = "move"
  /\ selected \in entities /\ selected \in DOMAIN movement
  /\ movement[selected].targetPosition = Vec(lastOp.arg)
  /\ \E e \in (DOMAIN movement) \ {selected} :
        /\ movement[e].isMoving
        /\ movement[e].targetPosition /= Vec(lastOp.arg)


\* C40: the gather timer of a worker is 0 whenever the worker takes a new
\* target: the time it has accumulated at an earlier target does not count
\* toward the gather interval at the next one.
C40_TimerZeroAtNewTarget ==
  [][lastOp'.op = "update" =>
       \A e \in (DOMAIN gathering) \cap (DOMAIN gathering') :
          (/\ gathering'[e].targetResourceId /= NoId
           /\ gathering'[e].targetResourceId /= gathering[e].targetResourceId)
             => gathering'[e].gatherTimer = 0]_vars

====
